---- MODULE Spec2Model ----
(***************************************************************************)
(* Call signalling of EnhancedSipManager (enhanced_sip_manager.py), the    *)
(* presence monitor (whatsapp_monitor.py) and the deferred-answer logic of *)
(* the dialer (sip_dialer.py), as a state machine.                         *)
(*                                                                         *)
(* Text is modelled as sequences of one-character strings, so that the     *)
(* string operations of the code (lstrip, re.sub) are computed, not        *)
(* assumed.  Call timers are counted in tenths of a second, the clock of   *)
(* the registration scheduler (now, expires) in seconds.                   *)
(*                                                                         *)
(* Spec is the signalling of incoming calls, SpecCoord the deferred-answer *)
(* logic driven by presence events, SpecConc the answering threads step by *)
(* step, SpecOut an outgoing call and its responses, SpecTimeout the same  *)
(* with the clock and the listener loop on the shared socket.  SpecCancel  *)
(* adds CANCEL to the incoming signalling, SpecEnd the ways a call ends,   *)
(* SpecCodec the SDP offers and the codec chosen, SpecMedia the RTP        *)
(* streams, and SpecReg is registration (register_account of               *)
(* working_sip_manager.py, its retries, the keep-alive scheduler and the   *)
(* listeners it starts).                                                   *)
(*                                                                         *)
(* SpecAlloc follows the threads that take a call id from the shared       *)
(* counter statement by statement, SpecScenario one incoming call from     *)
(* INVITE to BYE, SpecRtp the RTP sender, SpecMonitor the polling threads  *)
(* of the monitor and their lock, SpecCleanup the cleanup of answered      *)
(* entries.  SpecPacket, SpecG711 and SpecDigest apply functions on inputs *)
(* drawn by their initial states: RTP packing and parsing, the G.711       *)
(* codecs, and the digest response of an authenticated REGISTER.           *)
(*                                                                         *)
(* SpecPresence is the coordinator under presence events of every state,   *)
(* SpecListen the listener loops of the accounts pass by pass, with the    *)
(* exceptions their handlers raise, SpecStop the same loops and the        *)
(* keep-alive worker under remove_account and shutdown, SpecSender the     *)
(* audio sender frame by frame.  SpecDialog follows the header fields of   *)
(* the requests of one outgoing call (INVITE, its authenticated resend,    *)
(* ACK, BYE), and SpecEnded the deferred entries of calls that end by BYE  *)
(* or hangup_call while the cleanup runs.                                  *)
(***************************************************************************)
EXTENDS Integers, Sequences, FiniteSets, TLC

\* ------------------------------------------------------------------ bounds
\* Number of internal call ids that may be handed out in one run.
MaxCalls == 2
\* How often one call may be reported TERMINATED (every BYE that names its
\* Call-ID reports it again).
MaxTerminations == 1
\* Outgoing calls started in one run.
MaxOutgoing == 1
\* Datagrams that arrive for one outgoing call.
MaxResponses == 3
\* CANCEL requests that arrive for one incoming call.
MaxCancels == 1
\* BYE requests that arrive for one outgoing call.
MaxByes == 1
\* Registration threads started in one run.
MaxRegistrations == 2
\* Seconds past the first registration's expiry up to which the keep-alive
\* scheduler is followed.
MaxLate == 120

\* RTP packets a sender is followed for.
MaxPackets == 4

\* Iterations of the cleanup loop that are followed.
MaxPasses == 40

\* ------------------------------------------------------- program constants
\* self.call_id_counter = 1000
FirstCallId == 1000
\* sock.settimeout(30.0) of _handle_call_responses, in tenths of a second
CallTimeout == 300
\* sock.settimeout(0.2) of listen_loop, in tenths of a second
ListenerTimeout == 2
\* account['registration_expires'] = time.time() + 2592000
RegistrationExpiry == 2592000
\* max_retries = 3 of register_thread
MaxRetries == 3
\* time.sleep(3) between two attempts
RetryWait == 3
\* time.sleep(60) of keep_alive_worker
KeepAliveInterval == 60
\* (expires - current_time) < 300
RefreshWindow == 300

Accounts == {0, 1}
CallIds == FirstCallId .. (FirstCallId + MaxCalls - 1)
SipCallIds == {"x@h", "y@h"}

\* None and the empty string are both falsy in the code's tests.
NoNumber == <<>>

\* User parts of the From header of an INVITE.
FromUsers == { <<"+", "0", "9", "4">>, <<"9", "-", "0">>, <<"a">> }

\* Numbers the monitor extracts with \+?[1-9][0-9]{6,14} (shortened), or None.
EventNumbers == { NoNumber, <<"+", "9", "4">>, <<"9", "0">>, <<"9", "9">> }

PresenceStates == {"IDLE", "CONNECTED"}

DialChars == {"0", "1", "2", "3", "4", "5", "6", "7", "8", "9", "+"}

VARIABLES
  sockets,                  \* accounts that exist and own a bound UDP socket
  registered_accounts,      \* accounts whose listener loop is running
  active_calls,             \* internal id -> call_info
  call_id_counter,
  incoming_sip_to_internal, \* SIP Call-ID -> internal id
  active_streams,           \* call ids with an RTP stream
  deferred_calls,           \* the dialer's _deferred_calls, in insertion order
  last_state,               \* the monitor's _last_state per account
  trace,                    \* internal id -> what was sent / reported, in order
  lastOp,                   \* the operation that produced this state
  thr,                      \* position of the monitor and the speech thread
  call_thread,              \* outgoing call id -> position of _make_call_thread
  sock_timeout,             \* account -> timeout last set on its socket
  held_info,                \* call id -> call_info its call thread still holds
                            \* after the call left active_calls
  accounts,                 \* the keys of self.accounts
  listeners,                \* account -> listener loops running on its socket
  reg_thread,               \* thread id -> registration thread of an account
  expires,                  \* account -> registration_expires (0: not set)
  now,                      \* time.time(), in seconds
  alloc,                    \* thread -> its position in allocating a call id
  rtp,                      \* an RTP stream, its sender and what it put on the wire
  calc,                     \* a function applied on its own: its input and results
  mon,                      \* the monitor's lock and its polling threads
  lst                       \* the listener loops and the keep-alive loop

\* The state of registration: what the call handlers leave alone.
regVars == << accounts, listeners, reg_thread, expires, now >>

\* The positions of the threads that are followed statement by statement.
stepVars == << alloc, rtp, calc, mon, lst >>

extVars == << held_info, regVars, stepVars >>

\* What the sequential handlers of incoming calls leave alone.
auxVars == << thr, call_thread, sock_timeout >>

\* Everything but the threads followed statement by statement.
managerVars == << sockets, registered_accounts, active_calls, call_id_counter,
                 incoming_sip_to_internal, active_streams, deferred_calls,
                 last_state, trace, auxVars, held_info, regVars >>

vars == << sockets, registered_accounts, active_calls, call_id_counter,
           incoming_sip_to_internal, active_streams, deferred_calls,
           last_state, trace, lastOp, thr, call_thread, sock_timeout,
           held_info, accounts, listeners, reg_thread, expires, now,
           stepVars >>

\* ----------------------------------------------------------------- helpers
Ev(k, v) == [k |-> k, v |-> v]

Tx100 == Ev("tx", "100 Trying")
Tx180 == Ev("tx", "180 Ringing")
Tx200 == Ev("tx", "200 OK+SDP")
TxByeOk == Ev("tx", "200 OK (BYE)")
TxBye == Ev("tx", "BYE")
Cb(s) == Ev("cb", s)
Rec(s) == Ev("state", s)
RtpStart == Ev("rtp", "start")
RtpStop == Ev("rtp", "stop")

Count(s, e) == Cardinality({i \in 1..Len(s) : s[i] = e})

\* What lastOp records: the answer operations with their arguments and
\* results; every other operation is recorded as OtherOp.
Op(name, acct, cid, num, ok, matched, fallback) ==
  [op |-> name, acct |-> acct, cid |-> cid, num |-> num,
   ok |-> ok, matched |-> matched, fallback |-> fallback]

OtherOp == Op("other", 0, 0, NoNumber, FALSE, {}, {})

\* str.lstrip(ch)
RECURSIVE LStrip(_, _)
LStrip(s, ch) ==
  IF s # <<>> /\ Head(s) = ch THEN LStrip(Tail(s), ch) ELSE s

NormIdentity(n) == n

\* def norm(n): return n.lstrip('+').lstrip('0')
Norm(n) == LStrip(LStrip(n, "+"), "0")

\* re.sub(r'[^0-9+]', '', user_part); an empty result leaves caller_number None
CallerNumber(from_user) == SelectSeq(from_user, LAMBDA ch : ch \in DialChars)

\* The a=rtpmap lines of an SDP offer, payload type -> encoding name as
\* written; an offer of static payload types needs none.
NoRtpmap == << >>

Rtpmaps == { NoRtpmap, (8 :> "PCMA"), (8 :> "pcma"),
             (0 :> "PCMU") @@ (8 :> "PCMA") }

\* The payload types of the m=audio line of an offer, in order.
OfferedPts == { <<0>>, <<8>>, <<0, 8>>, <<8, 0>>, <<18, 8>>, <<18>> }

\* An INVITE datagram: Call-ID header, user part of From, whether the SDP
\* offer carries an m=audio line with a port (the INVITEs drawn all do), the
\* payload types of that line and the a=rtpmap lines.
Invites ==
  [sip_call_id : SipCallIds, from_user : FromUsers, sdp_port : {TRUE},
   pts : {<<0, 8>>}, rtpmap : {NoRtpmap}]

\* INVITEs whose offers differ in payload types and rtpmap lines.
CodecInvites ==
  [sip_call_id : SipCallIds, from_user : {<<"a">>}, sdp_port : {TRUE},
   pts : OfferedPts, rtpmap : Rtpmaps]

\* str.upper() on the encoding names drawn
Upper(codec) ==
  CASE codec = "pcma" -> "PCMA"
    [] codec = "pcmu" -> "PCMU"
    [] OTHER -> codec

\* info['pts'] and info['rtpmap'] of _parse_sdp_offer
ParseSdpOffer(inv) ==
  [pts |-> inv.pts,
   rtpmap |-> [pt \in DOMAIN inv.rtpmap |-> Upper(inv.rtpmap[pt])]]

Offered(pts, pt) == \E i \in 1..Len(pts) : pts[i] = pt

\* A choice that prefers payload type 8.
ChosenPtPreferringA(pts) == IF Offered(pts, 8) THEN 8 ELSE 0

\* chosen_pt = 0 if 0 in offered_pts else (8 if 8 in offered_pts else 0)
ChosenPt(pts) == IF Offered(pts, 0) THEN 0 ELSE IF Offered(pts, 8) THEN 8 ELSE 0

\* chosen_codec = rtpmap.get(chosen_pt, 'PCMU') if chosen_pt in (0, 8) else 'PCMU'
ChosenCodec(pt, rtpmap) ==
  IF pt \in {0, 8}
    THEN (IF pt \in DOMAIN rtpmap THEN rtpmap[pt] ELSE "PCMU")
    ELSE "PCMU"

\* m=audio <port> RTP/AVP <payload_type> and a=rtpmap:<payload_type> <codec>/8000
\* of _create_200ok_with_sdp, as both answer methods call it
OkSdp(ci) == [pts |-> << ci.remote_pt >>, rtpmap |-> (ci.remote_pt :> ci.remote_codec)]

\* stream_info of start_rtp_stream, as the ACK handler calls it
StreamInfo(ci) == [payload_type |-> ci.remote_pt, codec |-> Upper(ci.remote_codec)]

\* _send_audio_thread: the encoding of the samples and the payload type in
\* the RTP header
RtpPacket(stream) ==
  [pt |-> stream.payload_type,
   encoding |-> IF stream.codec = "PCMA" THEN "alaw" ELSE "ulaw"]

\* ------------------------------------------------- EnhancedSipManager: calls
\* The 100/180 replies of _handle_incoming_invite_with_media, in sending order.
InviteRepliesSwapped == << Tx180, Tx100 >>

InviteReplies == << Tx100, Tx180 >>

\* active_calls[internal_id] = {...} of _handle_incoming_invite_with_media
IncomingCallInfo(a, inv) ==
  [ account_id |-> a,
    caller_number |-> CallerNumber(inv.from_user),
    sip_call_id |-> inv.sip_call_id,
    state |-> "RINGING",
    remote_rtp_port |-> inv.sdp_port,
    remote_pt |-> ChosenPt(ParseSdpOffer(inv).pts),
    remote_codec |-> ChosenCodec(ChosenPt(ParseSdpOffer(inv).pts),
                                 ParseSdpOffer(inv).rtpmap),
    raw_invite |-> inv,
    auth_attempts |-> 0,
    incoming |-> TRUE,
    deferred_answer |-> TRUE,
    rtp_active |-> FALSE ]

Result(ok, calls, tr) == [ok |-> ok, calls |-> calls, tr |-> tr]

\* A variant that neither checks nor records that the call was answered.
answer_deferred_call_unguarded(calls, tr, c) ==
  IF c \notin DOMAIN calls THEN Result(FALSE, calls, tr)
  ELSE IF calls[c].account_id \notin sockets THEN Result(FALSE, calls, tr)
  ELSE Result(TRUE, calls, [tr EXCEPT ![c] = @ \o << Tx200, Cb("ANSWERED") >>])

\* The tests answer_deferred_call makes before it sends anything.
DeferredAnswerable(calls, c) ==
  /\ c \in DOMAIN calls
  /\ calls[c].incoming
  /\ calls[c].deferred_answer
  /\ calls[c].state = "RINGING"
  /\ calls[c].account_id \in sockets

\* The tests answer_incoming_call makes before it sends anything.
IncomingAnswerable(calls, c) ==
  /\ c \in DOMAIN calls
  /\ calls[c].state \in {"RINGING", "ANSWERING"}
  /\ calls[c].account_id \in sockets

\* EnhancedSipManager.answer_deferred_call: [ok, calls, tr]
answer_deferred_call(calls, tr, c) ==
  IF ~DeferredAnswerable(calls, c) THEN Result(FALSE, calls, tr)
  ELSE Result(TRUE,
              [calls EXCEPT ![c].deferred_answer = FALSE, ![c].state = "ANSWERED"],
              [tr EXCEPT ![c] = @ \o << Tx200, Cb("ANSWERED") >>])

\* EnhancedSipManager.answer_incoming_call: [ok, calls, tr]
answer_incoming_call(calls, tr, c) ==
  IF ~IncomingAnswerable(calls, c) THEN Result(FALSE, calls, tr)
  ELSE Result(TRUE,
              [calls EXCEPT ![c].state = "ANSWERED"],
              [tr EXCEPT ![c] = @ \o << Tx200, Cb("ANSWERED") >>])

\* _notification_loop._attempt_sip_answer
AttemptSipAnswer(calls, tr, c) ==
  LET r == answer_deferred_call(calls, tr, c)
  IN IF r.ok THEN r ELSE answer_incoming_call(r.calls, r.tr, c)

\* Remove key c from a function (dict.pop(c, None) / del d[c]).
Without(f, c) == [k \in DOMAIN f \ {c} |-> f[k]]

\* ------------------------------------------- dialer: deferred-answer logic
\* _deferred_calls[call_id] = {...} of SipDialerApp._on_incoming_call
\* route_to_whatsapp is _call_routing_state.get(account_id, False), which the
\* user toggles at any time.
DeferredEntry(a, c, route_to_whatsapp) ==
  [ cid |-> c, account_id |-> a, answered |-> FALSE,
    speech_detection_mode |-> ~route_to_whatsapp ]

\* pending_calls of on_state
PendingCalls(dc, a) ==
  {i \in 1..Len(dc) : dc[i].account_id = a /\ ~dc[i].answered}

\* sip_number of on_state: caller_number of the call, None when the call is gone
SipNumber(calls, c) ==
  IF c \in DOMAIN calls THEN calls[c].caller_number ELSE NoNumber

\* The first loop of on_state ("Try number-based matching first"), from entry i.
\* st = [calls, tr, dc, matched_any, matched, fallback]
RECURSIVE MatchPass(_, _, _, _)
MatchPass(i, st, a, number) ==
  IF i > Len(st.dc) THEN st
  ELSE
    LET info == st.dc[i]
        sip_number == SipNumber(st.calls, info.cid)
        number_match == /\ number # NoNumber
                        /\ sip_number # NoNumber
                        /\ Norm(number) = Norm(sip_number)
    IN IF info.account_id # a \/ info.answered
         THEN MatchPass(i + 1, st, a, number)
       ELSE IF number # NoNumber /\ sip_number # NoNumber /\ ~number_match
         THEN MatchPass(i + 1, st, a, number)
       ELSE
         LET r == AttemptSipAnswer(st.calls, st.tr, info.cid)
         IN IF r.ok
              THEN MatchPass(i + 1,
                     [st EXCEPT !.calls = r.calls, !.tr = r.tr,
                                !.dc[i].answered = TRUE,
                                !.matched_any = TRUE,
                                !.matched = @ \cup {info.cid}],
                     a, number)
              ELSE MatchPass(i + 1, [st EXCEPT !.calls = r.calls, !.tr = r.tr],
                             a, number)

\* The second loop of on_state ("Fallback"), from entry i; stops at the first
\* call that could be answered.
RECURSIVE FallbackPass(_, _, _)
FallbackPass(i, st, a) ==
  IF i > Len(st.dc) THEN st
  ELSE
    LET info == st.dc[i]
    IN IF info.account_id = a /\ ~info.answered
         THEN LET r == AttemptSipAnswer(st.calls, st.tr, info.cid)
              IN IF r.ok
                   THEN [st EXCEPT !.calls = r.calls, !.tr = r.tr,
                                   !.dc[i].answered = TRUE,
                                   !.fallback = @ \cup {info.cid}]
                   ELSE FallbackPass(i + 1,
                          [st EXCEPT !.calls = r.calls, !.tr = r.tr], a)
         ELSE FallbackPass(i + 1, st, a)

\* A variant that runs the matching logic whatever the state is.
OnStateAnyState(a, state, number) ==
  LET st0 == [calls |-> active_calls, tr |-> trace, dc |-> deferred_calls,
              matched_any |-> FALSE, matched |-> {}, fallback |-> {}]
      st1 == MatchPass(1, st0, a, number)
  IN IF ~st1.matched_any /\ PendingCalls(deferred_calls, a) # {}
       THEN FallbackPass(1, st1, a)
       ELSE st1

\* _notification_loop.on_state(account_id, state, number)
OnState(a, state, number) ==
  LET st0 == [calls |-> active_calls, tr |-> trace, dc |-> deferred_calls,
              matched_any |-> FALSE, matched |-> {}, fallback |-> {}]
  IN IF state # "CONNECTED" THEN st0
     ELSE LET st1 == MatchPass(1, st0, a, number)
          IN IF ~st1.matched_any /\ PendingCalls(deferred_calls, a) # {}
               THEN FallbackPass(1, st1, a)
               ELSE st1

\* ------------------------------------------------------------------- state
EmptyMap == [k \in {} |-> k]

\* The threads that allocate internal call ids: the listener thread of each
\* account (incoming INVITEs) and the thread that calls make_call.
AllocThreads == {"listener0", "listener1", "caller"}
NotAllocating == [pc |-> "idle", acct |-> 0, id |-> 0, tmp |-> 0]

\* No thread is inside a handler that is followed statement by statement.
\* 32-bit values are kept as two 16-bit halves, << high, low >>.
Zero32 == << 0, 0 >>

\* stream_info of start_rtp_stream for the sender: 'sequence': 0,
\* 'timestamp': 0, 'ssrc': random.randint(1, 0xFFFFFFFF), 'running': True,
\* 'tx_count': 0
NewStream(ssrc, payload_type) ==
  [sequence |-> 0, timestamp |-> Zero32, ssrc |-> ssrc, running |-> TRUE,
   payload_type |-> payload_type, tx_count |-> 0]

\* No stream is followed packet by packet.
NoRtp == [stream |-> [NewStream(Zero32, 0) EXCEPT !.running = FALSE],
          wire |-> << >>, run |-> 0]

\* No function is being applied on its own.
NoCalc == [pc |-> "none"]

\* WhatsAppCallMonitor: nobody holds self._lock and the polling thread of every
\* account is between two polls.
Polling == [pc |-> "idle", state |-> "None", number |-> NoNumber]
NoMon == [lock |-> {}, thr |-> [a \in Accounts |-> Polling]]

\* initialize() has set self.running and started keep_alive_worker, and the
\* listen_loop of every account is at its while test.  cls is the class
\* whose _start_incoming_call_listener runs; recovered is the last exception
\* after which the loop handled a datagram.
Listening == [pc |-> "test", exc |-> "none", recovered |-> "none"]
ListenerOf(cls) ==
  [cls |-> cls, running |-> TRUE, ka |-> "test",
   loop |-> [a \in Accounts |-> Listening]]
NoLst == ListenerOf("enhanced")

InitSteps ==
  /\ alloc = [t \in AllocThreads |-> NotAllocating]
  /\ rtp = NoRtp
  /\ calc = NoCalc
  /\ mon = NoMon
  /\ lst = NoLst

\* The threads that answer calls: the presence monitor's (on_state) and the
\* speech trigger's.
Threads == {"monitor", "speech"}
Idle == [pc |-> "idle", cid |-> 0]

\* Init is the state with both accounts added and registered, their listener
\* loops running (sock.settimeout(0.2) done), and no call yet.

Init ==
  /\ sockets = Accounts
  /\ registered_accounts = Accounts
  /\ active_calls = EmptyMap
  /\ call_id_counter = FirstCallId
  /\ incoming_sip_to_internal = EmptyMap
  /\ active_streams = {}
  /\ deferred_calls = <<>>
  /\ last_state = [a \in Accounts |-> "None"]
  /\ trace = EmptyMap
  /\ lastOp = OtherOp
  /\ thr = [t \in Threads |-> Idle]
  /\ call_thread = EmptyMap
  /\ sock_timeout = [a \in Accounts |-> ListenerTimeout]
  /\ held_info = EmptyMap
  /\ accounts = Accounts
  /\ listeners = [a \in Accounts |-> 1]
  /\ reg_thread = EmptyMap
  /\ expires = [a \in Accounts |-> RegistrationExpiry]
  /\ now = 0
  /\ InitSteps

\* ----------------------------------------------------------------- actions
\* _handle_incoming_invite_with_media -> on_incoming_call: what the handler
\* does to the manager and the dialer
InviteHandled(a, inv, route_to_whatsapp) ==
  /\ a \in registered_accounts
  /\ call_id_counter < FirstCallId + MaxCalls
  /\ LET internal_id == call_id_counter
     IN /\ call_id_counter' = call_id_counter + 1
        /\ incoming_sip_to_internal' =
             (inv.sip_call_id :> internal_id) @@ incoming_sip_to_internal
        /\ active_calls' = (internal_id :> IncomingCallInfo(a, inv)) @@ active_calls
        /\ trace' = (internal_id :>
                       InviteReplies \o << Rec("RINGING") >>) @@ trace
        /\ deferred_calls' = Append(deferred_calls, DeferredEntry(a, internal_id, route_to_whatsapp))
        /\ lastOp' = OtherOp
  /\ UNCHANGED << held_info, regVars, auxVars, sockets, registered_accounts,
                  active_streams, last_state >>

\* listen_loop -> _handle_incoming_invite_with_media -> on_incoming_call
HandleIncomingInvite(a, inv, route_to_whatsapp) ==
  /\ InviteHandled(a, inv, route_to_whatsapp)
  /\ UNCHANGED stepVars

\* An ACK handler that opens a stream with its two loops on every ACK, whether
\* or not the call has one.
HandleIncomingAckReopening(a, sid, started) ==
  /\ a \in registered_accounts
  /\ lastOp' = OtherOp
  /\ sid \in DOMAIN incoming_sip_to_internal
  /\ incoming_sip_to_internal[sid] \in DOMAIN active_calls
  /\ started
  /\ LET c == incoming_sip_to_internal[sid]
     IN /\ active_streams' = active_streams \cup {c}
        /\ active_calls' = [active_calls EXCEPT ![c].rtp_active = TRUE,
                                                ![c].state = "ESTABLISHED"]
        /\ trace' = [trace EXCEPT ![c] = @ \o << RtpStart, Cb("ESTABLISHED") >>]
  /\ UNCHANGED << extVars, auxVars, sockets, registered_accounts, call_id_counter,
                  incoming_sip_to_internal, deferred_calls, last_state >>

\* listen_loop -> _handle_incoming_ack_with_media; started is the outcome of
\* opening the RTP socket and the audio devices in start_rtp_stream, which
\* returns True at once, opening nothing, for a call that has a stream.
\* RtpStart stands for the start of the sender and the receiver thread.
HandleIncomingAck(a, sid, started) ==
  /\ a \in registered_accounts
  /\ lastOp' = OtherOp
  /\ IF sid \in DOMAIN incoming_sip_to_internal
        /\ incoming_sip_to_internal[sid] \in DOMAIN active_calls
       THEN LET c == incoming_sip_to_internal[sid]
                ci == active_calls[c]
                ok == c \in active_streams \/ started
            IN IF ci.remote_rtp_port /\ ~ci.rtp_active /\ ok
                 THEN /\ active_streams' = active_streams \cup {c}
                      /\ active_calls' = [active_calls EXCEPT
                                            ![c].rtp_active = TRUE,
                                            ![c].state = "ESTABLISHED"]
                      /\ trace' = [trace EXCEPT ![c] = @
                                     \o (IF c \in active_streams THEN << >>
                                                               ELSE << RtpStart >>)
                                     \o << Cb("ESTABLISHED") >>]
                 ELSE UNCHANGED << active_streams, active_calls, trace >>
       ELSE UNCHANGED << active_streams, active_calls, trace >>
  /\ UNCHANGED << extVars, auxVars, sockets, registered_accounts, call_id_counter,
                  incoming_sip_to_internal, deferred_calls, last_state >>

\* _handle_incoming_bye_with_media: what the handler does to the manager
ByeHandled(a, sid) ==
  /\ a \in registered_accounts
  /\ sid \in DOMAIN incoming_sip_to_internal
  /\ LET c == incoming_sip_to_internal[sid]
     IN /\ Count(trace[c], Cb("TERMINATED")) < MaxTerminations
        /\ active_streams' = active_streams \ {c}
        /\ active_calls' = Without(active_calls, c)
        /\ trace' = [trace EXCEPT ![c] = @ \o << TxByeOk >>
                       \o (IF c \in active_streams THEN << RtpStop >> ELSE << >>)
                       \o << Cb("TERMINATED") >>]
        /\ lastOp' = OtherOp
  /\ UNCHANGED << held_info, regVars, auxVars, sockets, registered_accounts,
                  call_id_counter, incoming_sip_to_internal, deferred_calls,
                  last_state >>

\* listen_loop -> _handle_incoming_bye_with_media
HandleIncomingBye(a, sid) ==
  /\ ByeHandled(a, sid)
  /\ UNCHANGED stepVars

\* EnhancedSipManager.hangup_call
HangupCall(c) ==
  /\ c \in DOMAIN active_calls
  /\ active_streams' = active_streams \ {c}
  /\ active_calls' = Without(active_calls, c)
  /\ trace' = [trace EXCEPT ![c] = @
                 \o (IF c \in active_streams THEN << RtpStop >> ELSE << >>)
                 \o (IF active_calls[c].state = "ESTABLISHED"
                       /\ active_calls[c].account_id \in sockets
                      THEN << TxBye >> ELSE << >>)
                 \o << Cb("TERMINATED") >>]
  /\ held_info' = IF c \in DOMAIN call_thread /\ call_thread[c].pc \in {"loop", "recv"}
                    THEN (c :> active_calls[c]) @@ held_info
                    ELSE held_info
  /\ lastOp' = OtherOp
  /\ UNCHANGED << regVars, stepVars, auxVars, sockets, registered_accounts, call_id_counter,
                  incoming_sip_to_internal, deferred_calls, last_state >>

\* A direct invocation of answer_deferred_call(internal_id)
AnswerDeferredCall(c) ==
  /\ LET r == answer_deferred_call(active_calls, trace, c)
     IN /\ active_calls' = r.calls
        /\ trace' = r.tr
        /\ lastOp' = Op("answer_deferred_call", 0, c, NoNumber, r.ok, {}, {})
  /\ UNCHANGED << extVars, auxVars, sockets, registered_accounts, call_id_counter,
                  incoming_sip_to_internal, active_streams, deferred_calls, last_state >>

\* SipDialerApp._answer_call_with_speech_trigger for a call in speech mode
AnswerCallWithSpeechTrigger(i) ==
  /\ i \in 1..Len(deferred_calls)
  /\ deferred_calls[i].speech_detection_mode
  /\ LET c == deferred_calls[i].cid
         r == answer_incoming_call(active_calls, trace, c)
     IN /\ active_calls' = r.calls
        /\ trace' = r.tr
        /\ lastOp' = OtherOp
  /\ deferred_calls' = SubSeq(deferred_calls, 1, i - 1)
                         \o SubSeq(deferred_calls, i + 1, Len(deferred_calls))
  /\ UNCHANGED << extVars, auxVars, sockets, registered_accounts, call_id_counter,
                  incoming_sip_to_internal, active_streams, last_state >>

\* WhatsAppCallMonitor loop: a poll whose state differs from the last one
\* calls on_state under the monitor's lock.
PresenceEvent(a, state, number) ==
  /\ state # last_state[a]
  /\ last_state' = [last_state EXCEPT ![a] = state]
  /\ LET st == OnState(a, state, number)
     IN /\ active_calls' = st.calls
        /\ trace' = st.tr
        /\ deferred_calls' = st.dc
        /\ lastOp' = IF state = "CONNECTED"
                       THEN Op("on_state", a, 0, number, st.matched_any,
                               st.matched, st.fallback)
                       ELSE OtherOp
  /\ UNCHANGED << extVars, auxVars, sockets, registered_accounts, call_id_counter,
                  incoming_sip_to_internal, active_streams >>

\* WorkingSipManager.remove_account
RemoveAccount(a) ==
  /\ a \in accounts
  /\ registered_accounts' = registered_accounts \ {a}
  /\ sockets' = sockets \ {a}
  /\ accounts' = accounts \ {a}
  /\ lastOp' = OtherOp
  /\ UNCHANGED << held_info, listeners, reg_thread, expires, now, stepVars,
                  auxVars, active_calls, call_id_counter,
                  incoming_sip_to_internal, active_streams, deferred_calls,
                  last_state, trace >>

\* INVITEs of the signalling specification: the caller number plays no part
\* in any handler of the manager, so one user part is drawn.
SignallingInvites == {inv \in Invites : inv.from_user = <<"a">>}

\* Signalling of incoming calls, every handler run to completion.
Next ==
  \/ \E a \in Accounts, inv \in SignallingInvites, route \in BOOLEAN :
       HandleIncomingInvite(a, inv, route)
  \/ \E a \in Accounts, sid \in SipCallIds, started \in BOOLEAN :
       HandleIncomingAck(a, sid, started)
  \/ \E a \in Accounts, sid \in SipCallIds : HandleIncomingBye(a, sid)
  \/ \E c \in CallIds : HangupCall(c)
  \/ \E c \in CallIds : AnswerDeferredCall(c)
  \/ \E i \in 1..MaxCalls : AnswerCallWithSpeechTrigger(i)
  \/ \E a \in Accounts : RemoveAccount(a)

Spec == Init /\ [][Next]_vars

\* The deferred-answer logic: INVITEs on the WhatsApp route, presence events,
\* and what ends or establishes a call meanwhile.
NextCoord ==
  \/ \E a \in Accounts, inv \in Invites :
       HandleIncomingInvite(a, inv, TRUE)
  \/ \E a \in Accounts, sid \in SipCallIds, started \in BOOLEAN :
       HandleIncomingAck(a, sid, started)
  \/ \E a \in Accounts, sid \in SipCallIds : HandleIncomingBye(a, sid)
  \/ \E a \in Accounts, state \in PresenceStates :
       \E number \in (IF state = "CONNECTED" THEN EventNumbers ELSE {NoNumber}) :
         PresenceEvent(a, state, number)

SpecCoord == Init /\ [][NextCoord]_vars

\* ------------------------------------------- the answering threads, by step
\* No lock guards a call: between the tests of an answer method, its
\* sock.sendto and its writes to call_info another thread may run.
At(pc, c) == [pc |-> pc, cid |-> c]

\* del self._deferred_calls[call_id]
RemoveEntry(dc, c) == SelectSeq(dc, LAMBDA e : e.cid # c)

\* info['answered'] = True, on the entry on_state holds a reference to
MarkEntry(dc, c) ==
  [i \in 1..Len(dc) |-> IF dc[i].cid = c THEN [dc[i] EXCEPT !.answered = TRUE]
                                          ELSE dc[i]]

\* on_state reaches a pending entry and calls _attempt_sip_answer, which
\* enters answer_deferred_call and makes its tests.
MonitorAttempt(i) ==
  /\ thr["monitor"] = Idle
  /\ i \in 1..Len(deferred_calls)
  /\ ~deferred_calls[i].answered
  /\ LET c == deferred_calls[i].cid
     IN thr' = [thr EXCEPT !["monitor"] =
                  IF DeferredAnswerable(active_calls, c)
                    THEN At("adc_send", c) ELSE At("aic_test", c)]
  /\ lastOp' = OtherOp
  /\ UNCHANGED << extVars, sockets, registered_accounts, active_calls, call_id_counter,
                  incoming_sip_to_internal, active_streams, deferred_calls,
                  last_state, trace, call_thread, sock_timeout >>

\* _attempt_sip_answer: answer_deferred_call returned False, so
\* answer_incoming_call is entered and makes its tests.
MonitorFallsBack ==
  /\ thr["monitor"].pc = "aic_test"
  /\ thr' = [thr EXCEPT !["monitor"] =
               IF IncomingAnswerable(active_calls, thr["monitor"].cid)
                 THEN At("aic_send", thr["monitor"].cid) ELSE Idle]
  /\ lastOp' = OtherOp
  /\ UNCHANGED << extVars, sockets, registered_accounts, active_calls, call_id_counter,
                  incoming_sip_to_internal, active_streams, deferred_calls,
                  last_state, trace, call_thread, sock_timeout >>

\* _answer_call_with_speech_trigger enters answer_incoming_call, which makes
\* its tests; when they fail the entry is deleted at once (finally).
SpeechTrigger(i) ==
  /\ thr["speech"] = Idle
  /\ i \in 1..Len(deferred_calls)
  /\ deferred_calls[i].speech_detection_mode
  /\ LET c == deferred_calls[i].cid
     IN IF IncomingAnswerable(active_calls, c)
          THEN /\ thr' = [thr EXCEPT !["speech"] = At("aic_send", c)]
               /\ UNCHANGED deferred_calls
          ELSE /\ deferred_calls' = RemoveEntry(deferred_calls, c)
               /\ UNCHANGED thr
  /\ lastOp' = OtherOp
  /\ UNCHANGED << extVars, sockets, registered_accounts, active_calls, call_id_counter,
                  incoming_sip_to_internal, active_streams,
                  last_state, trace, call_thread, sock_timeout >>

\* sock.sendto(ok_response, addr) of either answer method
SendOk(t) ==
  /\ thr[t].pc \in {"adc_send", "aic_send"}
  /\ trace' = [trace EXCEPT ![thr[t].cid] = @ \o << Tx200 >>]
  /\ thr' = [thr EXCEPT ![t].pc = IF @ = "adc_send" THEN "adc_mark" ELSE "aic_mark"]
  /\ lastOp' = OtherOp
  /\ UNCHANGED << extVars, sockets, registered_accounts, active_calls, call_id_counter,
                  incoming_sip_to_internal, active_streams, deferred_calls,
                  last_state, call_thread, sock_timeout >>

\* The rest of the answer method (the writes to call_info, which is no longer
\* in active_calls after a BYE, and the ANSWERED callback) and of its caller.
MarkAnswered(t) ==
  /\ thr[t].pc \in {"adc_mark", "aic_mark"}
  /\ LET c == thr[t].cid
     IN /\ active_calls' =
             IF c \notin DOMAIN active_calls THEN active_calls
             ELSE IF thr[t].pc = "adc_mark"
               THEN [active_calls EXCEPT ![c].deferred_answer = FALSE,
                                         ![c].state = "ANSWERED"]
               ELSE [active_calls EXCEPT ![c].state = "ANSWERED"]
        /\ trace' = [trace EXCEPT ![c] = @ \o << Cb("ANSWERED") >>]
        /\ deferred_calls' = IF t = "monitor"
                               THEN MarkEntry(deferred_calls, c)
                               ELSE RemoveEntry(deferred_calls, c)
  /\ thr' = [thr EXCEPT ![t] = Idle]
  /\ lastOp' = OtherOp
  /\ UNCHANGED << extVars, sockets, registered_accounts, call_id_counter,
                  incoming_sip_to_internal, active_streams,
                  last_state, call_thread, sock_timeout >>

NextConc ==
  \/ \E a \in Accounts, inv \in SignallingInvites, route \in BOOLEAN :
       HandleIncomingInvite(a, inv, route)
  \/ \E a \in Accounts, sid \in SipCallIds : HandleIncomingBye(a, sid)
  \/ \E i \in 1..MaxCalls : MonitorAttempt(i)
  \/ MonitorFallsBack
  \/ \E i \in 1..MaxCalls : SpeechTrigger(i)
  \/ \E t \in Threads : SendOk(t)
  \/ \E t \in Threads : MarkAnswered(t)

SpecConc == Init /\ [][NextConc]_vars

\* ------------------------------------------------------- outgoing calls
\* The first line of a response, "SIP/2.0 <code> <reason>".
SL(code, reason) == [code |-> code, reason |-> reason]

StatusLines ==
  { SL(100, "Trying"), SL(180, "Ringing"), SL(183, "Session Progress"),
    SL(200, "OK"), SL(302, "Moved Temporarily"), SL(401, "Unauthorized"),
    SL(404, "Not Found"), SL(407, "Proxy Authentication Required"),
    SL(408, "Request Timeout"), SL(486, "Busy Here"), SL(486, "Busy here"),
    SL(500, "Server Internal Error"), SL(603, "Decline") }

\* A response datagram: its first line, whether it carries a WWW-Authenticate
\* or Proxy-Authenticate header with a nonce, and its SDP body: an m=audio
\* line with a port ("port"), none ("none"), or one whose port is no number
\* ("bad").
Responses ==
  { r \in [line : StatusLines, challenge : BOOLEAN, sdp : {"port", "none", "bad"}] :
      /\ r.challenge => r.line.code \in {401, 407}
      /\ r.sdp # "none" => r.line.code = 200 }

\* The if/elif chain of _handle_call_responses over first_line.
ResponseClass(line) ==
  IF line = SL(100, "Trying") THEN "trying"
  ELSE IF line \in {SL(180, "Ringing"), SL(183, "Session Progress")} THEN "ringing"
  ELSE IF line = SL(200, "OK") THEN "ok"
  ELSE IF line = SL(401, "Unauthorized") THEN "challenge"
  ELSE IF line \in {SL(486, "Busy Here"), SL(603, "Decline")} THEN "busy"
  ELSE IF line = SL(408, "Request Timeout") THEN "timeout"
  ELSE IF line = SL(404, "Not Found") THEN "notfound"
  ELSE IF line.code \div 100 \in {4, 5, 6} THEN "failed"
  ELSE "ignored"

TxInvite == Ev("tx", "INVITE")
TxAuthInvite == Ev("tx", "INVITE+Authorization")
TxAck == Ev("tx", "ACK")
Rx(r) == Ev("rx", r)
Lost(r) == Ev("lost", r)
\* on_call_state_changed(call_id, state, reason)
CbWhy(s, why) == [k |-> "cb", v |-> s, why |-> why]

Arrivals(tr) == SelectSeq(tr, LAMBDA e : e.k \in {"rx", "lost"})

\* self.active_calls[call_id] = {...} of _make_call_thread
OutgoingCallInfo(a) ==
  [ account_id |-> a,
    caller_number |-> NoNumber,
    sip_call_id |-> "out",
    state |-> "CALLING",
    remote_rtp_port |-> FALSE,
    auth_attempts |-> 0,
    incoming |-> FALSE,
    deferred_answer |-> FALSE,
    rtp_active |-> FALSE ]

\* Position of a call thread: before the loop test ("loop"), blocked in
\* recvfrom ("recv") with the timeout the socket had on entry and the time
\* waited so far, or past the loop ("done").
Thread(pc, timeout, waited) == [pc |-> pc, timeout |-> timeout, waited |-> waited]

\* What the call thread does with a datagram it received:
\* [ci, ev, brk, stream] = call_info, events, whether the loop is left by
\* break or exception, whether an RTP stream was started.
Outcome(ci, ev, brk, stream) == [ci |-> ci, ev |-> ev, brk |-> brk, stream |-> stream]

Set(ci, s) == [ci EXCEPT !.state = s]

ProcessResponse(ci, r, started) ==
  LET class == ResponseClass(r.line)
  IN CASE class = "trying" ->
            Outcome(Set(ci, "TRYING"), << Rec("TRYING") >>, FALSE, FALSE)
       [] class = "ringing" ->
            Outcome(Set(ci, "RINGING"),
                    << Rec("RINGING"), CbWhy("RINGING", "Ringing") >>, FALSE, FALSE)
       [] class = "ok" ->
            IF r.sdp = "bad"
              THEN Outcome(Set(ci, "ERROR"),
                           << Rec("ANSWERED"), Rec("ERROR"), CbWhy("ERROR", "Error") >>,
                           TRUE, FALSE)
              ELSE LET port == (r.sdp = "port") \/ ci.remote_rtp_port
                       start == port /\ ~ci.rtp_active
                   IN Outcome([ci EXCEPT !.state = "ESTABLISHED",
                                         !.remote_rtp_port = port,
                                         !.rtp_active = IF start THEN started ELSE @],
                              << Rec("ANSWERED"), Ev("sdp", r.sdp), TxAck >>
                                \o (IF start /\ started THEN << RtpStart >> ELSE << >>)
                                \o << Rec("ESTABLISHED"),
                                      CbWhy("ESTABLISHED", "Call established") >>,
                              TRUE, start /\ started)
       [] class = "challenge" ->
            IF ci.auth_attempts + 1 > 2
              THEN Outcome([ci EXCEPT !.auth_attempts = @ + 1, !.state = "FAILED"],
                           << Rec("FAILED"),
                              CbWhy("FAILED", "Authentication failed - too many attempts") >>,
                           TRUE, FALSE)
            ELSE IF r.challenge
              THEN Outcome([ci EXCEPT !.auth_attempts = @ + 1],
                           << TxAuthInvite >>, FALSE, FALSE)
              ELSE Outcome([ci EXCEPT !.auth_attempts = @ + 1, !.state = "FAILED"],
                           << Rec("FAILED"), CbWhy("FAILED", "Authentication failed") >>,
                           TRUE, FALSE)
       [] class = "busy" ->
            Outcome(Set(ci, "BUSY"), << Rec("BUSY"), CbWhy("BUSY", "Busy") >>,
                    TRUE, FALSE)
       [] class = "timeout" ->
            Outcome(Set(ci, "TIMEOUT"),
                    << Rec("TIMEOUT"), CbWhy("TIMEOUT", "408 Request Timeout") >>,
                    TRUE, FALSE)
       [] class = "notfound" ->
            Outcome(Set(ci, "FAILED"),
                    << Rec("FAILED"), CbWhy("FAILED", "404 Not Found") >>, TRUE, FALSE)
       [] class = "failed" ->
            Outcome(Set(ci, "FAILED"),
                    << Rec("FAILED"), CbWhy("FAILED", << "Failed", r.line >>) >>,
                    TRUE, FALSE)
       [] OTHER -> Outcome(ci, << >>, FALSE, FALSE)

\* make_call and _make_call_thread up to the loop of _handle_call_responses
MakeCall(a) ==
  /\ a \in registered_accounts
  /\ a \in sockets
  /\ Cardinality(DOMAIN call_thread) < MaxOutgoing
  /\ LET c == call_id_counter
     IN /\ call_id_counter' = call_id_counter + 1
        /\ active_calls' = (c :> OutgoingCallInfo(a)) @@ active_calls
        /\ trace' = (c :> << TxInvite, Rec("CALLING") >>) @@ trace
        /\ call_thread' = (c :> Thread("loop", 0, 0)) @@ call_thread
  /\ sock_timeout' = [sock_timeout EXCEPT ![a] = CallTimeout]
  /\ lastOp' = OtherOp
  /\ UNCHANGED << extVars, sockets, registered_accounts, incoming_sip_to_internal,
                  active_streams, deferred_calls, last_state, thr >>

\* call_info = self.active_calls[call_id] of _handle_call_responses: the
\* dictionary the call thread works on, whether or not hangup_call has
\* deleted it from active_calls meanwhile.
InfoOf(c) == IF c \in DOMAIN active_calls THEN active_calls[c] ELSE held_info[c]

\* _parse_sdp_response returns at once for a call that is not in active_calls.
Parsed(c, r) == IF c \in DOMAIN active_calls THEN r ELSE [r EXCEPT !.sdp = "none"]

\* while call_info['state'] in ['CALLING', 'RINGING']: sock.recvfrom(4096)
EnterRecv(c) ==
  /\ c \in DOMAIN call_thread
  /\ call_thread[c].pc = "loop"
  /\ call_thread' = [call_thread EXCEPT ![c] =
       IF InfoOf(c).state \in {"CALLING", "RINGING"}
         THEN Thread("recv", sock_timeout[InfoOf(c).account_id], 0)
         ELSE Thread("done", 0, 0)]
  /\ lastOp' = OtherOp
  /\ UNCHANGED << extVars, sockets, registered_accounts, active_calls, call_id_counter,
                  incoming_sip_to_internal, active_streams, deferred_calls,
                  last_state, trace, thr, sock_timeout >>

\* recvfrom of the call thread returns datagram r; the body of the loop.
RecvResponse(c, r, started) ==
  /\ c \in DOMAIN call_thread
  /\ call_thread[c].pc = "recv"
  /\ Len(Arrivals(trace[c])) < MaxResponses
  /\ LET o == ProcessResponse(InfoOf(c), Parsed(c, r), started)
     IN /\ IF c \in DOMAIN active_calls
             THEN /\ active_calls' = [active_calls EXCEPT ![c] = o.ci]
                  /\ UNCHANGED held_info
             ELSE /\ held_info' = [held_info EXCEPT ![c] = o.ci]
                  /\ UNCHANGED active_calls
        /\ trace' = [trace EXCEPT ![c] = @ \o << Rx(r) >> \o o.ev]
        /\ active_streams' = IF o.stream THEN active_streams \cup {c}
                                         ELSE active_streams
        /\ call_thread' = [call_thread EXCEPT ![c] =
             IF o.brk THEN Thread("done", 0, 0) ELSE Thread("loop", 0, 0)]
  /\ lastOp' = OtherOp
  /\ UNCHANGED << regVars, stepVars, sockets, registered_accounts, call_id_counter,
                  incoming_sip_to_internal, deferred_calls, last_state, thr,
                  sock_timeout >>

\* recvfrom of listen_loop returns a response meant for call c: its first
\* token is no request method, so it is ignored, and the loop goes round.
ListenerTakes(c, r) ==
  /\ c \in DOMAIN call_thread
  /\ c \in DOMAIN active_calls
  /\ active_calls[c].account_id \in registered_accounts
  /\ Len(Arrivals(trace[c])) < MaxResponses
  /\ trace' = [trace EXCEPT ![c] = @ \o << Lost(r) >>]
  /\ sock_timeout' = [sock_timeout EXCEPT ![active_calls[c].account_id] = ListenerTimeout]
  /\ lastOp' = OtherOp
  /\ UNCHANGED << extVars, sockets, registered_accounts, active_calls, call_id_counter,
                  incoming_sip_to_internal, active_streams, deferred_calls,
                  last_state, thr, call_thread >>

NextOut ==
  \/ \E a \in Accounts : MakeCall(a)
  \/ \E c \in CallIds : EnterRecv(c)
  \/ \E c \in CallIds, r \in Responses, started \in BOOLEAN : RecvResponse(c, r, started)
  \/ \E c \in CallIds, r \in Responses : ListenerTakes(c, r)

SpecOut == Init /\ [][NextOut]_vars

\* ------------------------------------------- outgoing calls and the clock
\* Responses of the timed specification.
TimedResponses ==
  { r \in Responses : r.line \in {SL(180, "Ringing"), SL(486, "Busy Here")} }

\* listen_loop: recvfrom timed out, continue, sock.settimeout(0.2)
ListenerIteration(a) ==
  /\ a \in registered_accounts
  /\ sock_timeout[a] # ListenerTimeout
  /\ sock_timeout' = [sock_timeout EXCEPT ![a] = ListenerTimeout]
  /\ lastOp' = OtherOp
  /\ UNCHANGED << extVars, sockets, registered_accounts, active_calls, call_id_counter,
                  incoming_sip_to_internal, active_streams, deferred_calls,
                  last_state, trace, thr, call_thread >>

\* A tenth of a second passes while a call thread is blocked in recvfrom; a
\* recvfrom whose timeout has run out returns first.
Tick ==
  /\ \E c \in DOMAIN call_thread : call_thread[c].pc = "recv"
  /\ \A c \in DOMAIN call_thread :
       call_thread[c].pc = "recv" => call_thread[c].waited < call_thread[c].timeout
  /\ call_thread' = [c \in DOMAIN call_thread |->
       IF call_thread[c].pc = "recv"
         THEN [call_thread[c] EXCEPT !.waited = @ + 1]
         ELSE call_thread[c]]
  /\ lastOp' = OtherOp
  /\ UNCHANGED << extVars, sockets, registered_accounts, active_calls, call_id_counter,
                  incoming_sip_to_internal, active_streams, deferred_calls,
                  last_state, trace, thr, sock_timeout >>

\* except socket.timeout of _handle_call_responses; the thread keeps how long
\* the recvfrom had waited.
RecvTimeout(c) ==
  /\ c \in DOMAIN call_thread
  /\ call_thread[c].pc = "recv"
  /\ call_thread[c].waited >= call_thread[c].timeout
  /\ IF c \in DOMAIN active_calls
       THEN /\ active_calls' = [active_calls EXCEPT ![c].state = "TIMEOUT"]
            /\ UNCHANGED held_info
       ELSE /\ held_info' = [held_info EXCEPT ![c].state = "TIMEOUT"]
            /\ UNCHANGED active_calls
  /\ trace' = [trace EXCEPT ![c] = @ \o
                 << Rec("TIMEOUT"), CbWhy("TIMEOUT", "Call timeout") >>]
  /\ call_thread' = [call_thread EXCEPT ![c].pc = "timed_out"]
  /\ lastOp' = OtherOp
  /\ UNCHANGED << regVars, stepVars, sockets, registered_accounts, call_id_counter,
                  incoming_sip_to_internal, active_streams, deferred_calls,
                  last_state, thr, sock_timeout >>

NextTimeout ==
  \/ \E a \in Accounts : MakeCall(a)
  \/ \E c \in CallIds : EnterRecv(c)
  \/ \E c \in CallIds, r \in TimedResponses : RecvResponse(c, r, FALSE)
  \/ \E c \in CallIds, r \in TimedResponses : ListenerTakes(c, r)
  \/ \E a \in Accounts : ListenerIteration(a)
  \/ Tick
  \/ \E c \in CallIds : RecvTimeout(c)

SpecTimeout == Init /\ [][NextTimeout]_vars

\* ------------------------------------------------ the end of outgoing calls
\* listen_loop -> _handle_incoming_bye_with_media for a BYE that carries the
\* Call-ID of outgoing call c: _incoming_sip_to_internal holds the Call-IDs of
\* incoming calls only, so internal_id is None and only the 200 OK is sent.
HandleUnmappedBye(a, c) ==
  /\ a \in registered_accounts
  /\ c \in DOMAIN call_thread
  /\ c \in DOMAIN active_calls
  /\ active_calls[c].account_id = a
  /\ Count(trace[c], TxByeOk) < MaxByes
  /\ trace' = [trace EXCEPT ![c] = @ \o << TxByeOk >>]
  /\ lastOp' = OtherOp
  /\ UNCHANGED << extVars, auxVars, sockets, registered_accounts, active_calls,
                  call_id_counter, incoming_sip_to_internal, active_streams,
                  deferred_calls, last_state >>

\* Responses of the specification of ending calls.
EndResponses ==
  { r \in Responses :
      /\ r.line \in {SL(180, "Ringing"), SL(200, "OK"), SL(486, "Busy Here")}
      /\ r.sdp \in {"none", "port"} }

\* An outgoing call, its responses, and what ends it: hangup_call and a BYE
\* of the peer.
NextEnd ==
  \/ \E a \in Accounts : MakeCall(a)
  \/ \E c \in CallIds : EnterRecv(c)
  \/ \E c \in CallIds, r \in EndResponses, started \in BOOLEAN :
       RecvResponse(c, r, started)
  \/ \E c \in CallIds : HangupCall(c)
  \/ \E a \in Accounts, c \in CallIds : HandleUnmappedBye(a, c)

SpecEnd == Init /\ [][NextEnd]_vars

\* ------------------------------------------------------ codec negotiation
\* Incoming calls whose offers differ, answered and acknowledged.
NextCodec ==
  \/ \E a \in Accounts, inv \in CodecInvites : HandleIncomingInvite(a, inv, TRUE)
  \/ \E c \in CallIds : AnswerDeferredCall(c)
  \/ \E a \in Accounts, sid \in SipCallIds, started \in BOOLEAN :
       HandleIncomingAck(a, sid, started)

SpecCodec == Init /\ [][NextCodec]_vars

\* ------------------------------------------------------------ RTP streams
\* Responses of the specification of RTP streams.
MediaResponses ==
  { r \in Responses : r.line = SL(200, "OK") /\ r.sdp \in {"none", "port"} }

\* What starts and stops RTP streams: the ACK of an incoming call, the 200 OK
\* of an outgoing call, BYE and hangup_call.
NextMedia ==
  \/ \E a \in Accounts, inv \in SignallingInvites :
       HandleIncomingInvite(a, inv, TRUE)
  \/ \E c \in CallIds : AnswerDeferredCall(c)
  \/ \E a \in Accounts, sid \in SipCallIds, started \in BOOLEAN :
       HandleIncomingAck(a, sid, started)
  \/ \E a \in Accounts, sid \in SipCallIds : HandleIncomingBye(a, sid)
  \/ \E c \in CallIds : HangupCall(c)
  \/ \E a \in Accounts : MakeCall(a)
  \/ \E c \in CallIds : EnterRecv(c)
  \/ \E c \in CallIds, r \in MediaResponses, started \in BOOLEAN :
       RecvResponse(c, r, started)

SpecMedia == Init /\ [][NextMedia]_vars

\* ------------------------------------------------ CANCEL of incoming calls
RxCancel == Ev("rx", "CANCEL")
TxCancelOk == Ev("tx", "200 OK (CANCEL)")

\* listen_loop receives a CANCEL that names the Call-ID of an incoming call:
\* its first token is none of INVITE, ACK, BYE, OPTIONS, so the last branch
\* of the loop ignores it.
HandleIncomingCancel(a, sid) ==
  /\ a \in registered_accounts
  /\ sid \in DOMAIN incoming_sip_to_internal
  /\ LET c == incoming_sip_to_internal[sid]
     IN /\ Count(trace[c], RxCancel) < MaxCancels
        /\ trace' = [trace EXCEPT ![c] = @ \o << RxCancel >>]
  /\ lastOp' = OtherOp
  /\ UNCHANGED << extVars, auxVars, sockets, registered_accounts, active_calls,
                  call_id_counter, incoming_sip_to_internal, active_streams,
                  deferred_calls, last_state >>

\* Incoming calls that the caller may cancel before they are answered by
\* answer_deferred_call or by a presence event.
NextCancel ==
  \/ \E a \in Accounts, inv \in SignallingInvites :
       HandleIncomingInvite(a, inv, TRUE)
  \/ \E a \in Accounts, sid \in SipCallIds : HandleIncomingCancel(a, sid)
  \/ \E c \in CallIds : AnswerDeferredCall(c)
  \/ \E a \in Accounts, state \in PresenceStates :
       PresenceEvent(a, state, NoNumber)
  \/ \E a \in Accounts, sid \in SipCallIds : HandleIncomingBye(a, sid)

SpecCancel == Init /\ [][NextCancel]_vars

\* ------------------------------------- WorkingSipManager: registration
\* What the registration threads and the scheduler leave alone.
callVars == << active_calls, call_id_counter, incoming_sip_to_internal,
               active_streams, deferred_calls, last_state, trace, held_info,
               auxVars, stepVars >>

\* What recvfrom of a registration thread returns: the first line of a
\* response, or the request line of an OPTIONS request (code 0), and whether
\* the datagram carries a WWW-Authenticate or Proxy-Authenticate header with
\* realm and nonce.
RegDatagrams ==
  { d \in [line : { SL(200, "OK"), SL(401, "Unauthorized"),
                    SL(407, "Proxy Authentication Required"),
                    SL(403, "Forbidden"), SL(0, "OPTIONS") },
           challenge : BOOLEAN] :
      d.challenge => d.line.code \in {401, 407} }

\* socket.timeout raised by recvfrom
TimedOut == [line |-> SL(-1, "socket.timeout"), challenge |-> FALSE]

\* "SIP/2.0 200 OK" in first_line or " 200 " in first_line
IsOk(d) == d.line.code = 200

\* "401 Unauthorized" in response or "407 Proxy Authentication Required" in response
IsChallenge(d) ==
  d.line \in {SL(401, "Unauthorized"), SL(407, "Proxy Authentication Required")}

TxRegister == Ev("tx", "REGISTER")
TxAuthRegister == Ev("tx", "REGISTER+Authorization")
TxOptionsOk == Ev("tx", "200 OK (OPTIONS)")
\* on_registration_state_changed(account_id, registered, status_code)
CbReg(registered, code) == Ev("cb", << registered, code >>)
\* What a recvfrom of the thread ended with.
Got(d) == IF d = TimedOut THEN Ev("timeout", "socket.timeout") ELSE Rx(d)

\* A registration thread: its account, the index of its attempt, its
\* position, what it sent and received in this attempt (log), the sleeps it
\* took between attempts (waits), the states it reported (cbs), and whether
\* any of its recvfrom calls returned a datagram (heard).
RegThread(a, attempt, pc, log) ==
  [acct |-> a, attempt |-> attempt, pc |-> pc, log |-> log,
   waits |-> << >>, cbs |-> << >>, heard |-> FALSE]

Heard(ev) == \E i \in 1..Len(ev) : ev[i].k = "rx"

\* An end of attempt that never retries.
EndAttemptNoRetry(t, ok, ev) ==
  /\ reg_thread' = [reg_thread EXCEPT ![t].pc = "done",
                      ![t].log = @ \o ev,
                      ![t].heard = @ \/ Heard(ev),
                      ![t].cbs = @ \o << CbReg(FALSE, 0) >>]
  /\ UNCHANGED << registered_accounts, expires, listeners >>

\* The end of _perform_registration with result ok after the events ev, and
\* what register_thread does with the result: on success the expiry is set,
\* the account marked registered, a listener thread started and the state
\* reported (by _perform_registration and again by register_thread); on
\* failure the thread sleeps and retries, or reports (False, 0) after the
\* last attempt.
EndAttempt(t, ok, ev) ==
  LET th == reg_thread[t]
      a == th.acct
  IN IF ok
       THEN /\ reg_thread' = [reg_thread EXCEPT ![t].pc = "done",
                                ![t].log = @ \o ev,
                                ![t].heard = @ \/ Heard(ev),
                                ![t].cbs = @ \o << CbReg(TRUE, 200), CbReg(TRUE, 200) >>]
            /\ registered_accounts' = registered_accounts \cup {a}
            /\ expires' = IF a \in accounts
                            THEN [expires EXCEPT ![a] = now + RegistrationExpiry]
                            ELSE expires
            /\ listeners' = [listeners EXCEPT ![a] = @ + 1]
       ELSE /\ reg_thread' = [reg_thread EXCEPT ![t] =
                 IF th.attempt < MaxRetries - 1
                   THEN [th EXCEPT !.pc = "sleep",
                                   !.log = @ \o ev,
                                   !.heard = @ \/ Heard(ev),
                                   !.waits = @ \o << RetryWait >>]
                   ELSE [th EXCEPT !.pc = "done",
                                   !.log = @ \o ev,
                                   !.heard = @ \/ Heard(ev),
                                   !.cbs = @ \o << CbReg(FALSE, 0) >>]]
            /\ UNCHANGED << registered_accounts, expires, listeners >>

\* register_account: the thread is started when the account and its socket
\* exist.
RegisterAccount(a) ==
  /\ a \in accounts
  /\ a \in sockets
  /\ Cardinality(DOMAIN reg_thread) < MaxRegistrations
  /\ reg_thread' = (Cardinality(DOMAIN reg_thread) + 1 :>
                      RegThread(a, 0, "send", << >>)) @@ reg_thread
  /\ lastOp' = OtherOp
  /\ UNCHANGED << callVars, sockets, registered_accounts, accounts, listeners,
                  expires, now >>

\* _perform_registration up to its first recvfrom.  The socket of a removed
\* account is closed: for account 1 it is replaced by a new one, which is
\* stored in self.sockets; for any other account sendto raises and the
\* attempt fails.
SendRegister(t) ==
  /\ t \in DOMAIN reg_thread
  /\ reg_thread[t].pc = "send"
  /\ LET th == reg_thread[t]
         a == th.acct
     IN IF a \in sockets \/ a = 1
          THEN /\ sockets' = sockets \cup {a}
               /\ reg_thread' = [reg_thread EXCEPT ![t].pc = "recv1",
                                   ![t].log = << TxRegister >>]
               /\ UNCHANGED << registered_accounts, expires, listeners >>
          ELSE /\ EndAttempt(t, FALSE, << >>)
               /\ UNCHANGED sockets
  /\ lastOp' = OtherOp
  /\ UNCHANGED << callVars, accounts, now >>

\* A final recvfrom that answers a challenge with one more REGISTER.
RecvFinalResending(t, d) ==
  /\ t \in DOMAIN reg_thread
  /\ reg_thread[t].pc = "recv2"
  /\ IsChallenge(d) /\ d.challenge
  /\ reg_thread' = [reg_thread EXCEPT ![t].log = @ \o << Got(d), TxAuthRegister >>,
                                      ![t].heard = TRUE]
  /\ lastOp' = OtherOp
  /\ UNCHANGED << callVars, sockets, registered_accounts, accounts, listeners,
                  expires, now >>

\* The first recvfrom of _perform_registration returns d or times out.
RecvFirst(t, d) ==
  /\ t \in DOMAIN reg_thread
  /\ reg_thread[t].pc = "recv1"
  /\ d # TimedOut => reg_thread[t].acct \in sockets
  /\ IF IsOk(d) THEN EndAttempt(t, TRUE, << Got(d) >>)
     ELSE IF IsChallenge(d) /\ d.challenge
       THEN /\ reg_thread' = [reg_thread EXCEPT ![t].pc = "recv2",
                                ![t].heard = TRUE,
                                ![t].log = @ \o << Got(d), TxAuthRegister >>]
            /\ UNCHANGED << registered_accounts, expires, listeners >>
     ELSE EndAttempt(t, FALSE, << Got(d) >>)
  /\ lastOp' = OtherOp
  /\ UNCHANGED << callVars, sockets, accounts, now >>

\* The recvfrom after the REGISTER with Authorization returns d or times out.
RecvFinal(t, d) ==
  /\ t \in DOMAIN reg_thread
  /\ reg_thread[t].pc = "recv2"
  /\ d # TimedOut => reg_thread[t].acct \in sockets
  /\ IF d.line = SL(0, "OPTIONS")
       THEN EndAttempt(t, TRUE, << Got(d), TxOptionsOk >>)
     ELSE EndAttempt(t, IsOk(d), << Got(d) >>)
  /\ lastOp' = OtherOp
  /\ UNCHANGED << callVars, sockets, accounts, now >>

\* time.sleep(3) of register_thread is over: the next attempt
WakeUp(t) ==
  /\ t \in DOMAIN reg_thread
  /\ reg_thread[t].pc = "sleep"
  /\ reg_thread' = [reg_thread EXCEPT ![t].pc = "send", ![t].attempt = @ + 1]
  /\ lastOp' = OtherOp
  /\ UNCHANGED << callVars, sockets, registered_accounts, accounts, listeners,
                  expires, now >>

\* listen_loop: while account_id in self.registered_accounts, evaluated by a
\* listener thread of a when the account is not marked registered.
ListenerExits(a) ==
  /\ listeners[a] > 0
  /\ a \notin registered_accounts
  /\ listeners' = [listeners EXCEPT ![a] = @ - 1]
  /\ lastOp' = OtherOp
  /\ UNCHANGED << callVars, sockets, registered_accounts, accounts, reg_thread,
                  expires, now >>

\* The accounts the loop of keep_alive_worker refreshes at time t.
DueAt(t) ==
  { a \in registered_accounts \cap accounts :
      expires[a] > 0 /\ expires[a] - t < RefreshWindow }

\* The time of the first check after now at which DueAt is not empty, the
\* accounts registered as they are; now + 60 when there is none.
NextCheck ==
  LET set == { a \in registered_accounts \cap accounts : expires[a] > 0 }
      k(a) == IF expires[a] - RefreshWindow - now < KeepAliveInterval
                THEN 1
                ELSE ((expires[a] - RefreshWindow - now) \div KeepAliveInterval) + 1
  IN IF set = {} THEN now + KeepAliveInterval
     ELSE now + KeepAliveInterval *
            (CHOOSE n \in {k(a) : a \in set} : \A a \in set : n <= k(a))

\* Threads started for the accounts of set, one each, after those of th.
RECURSIVE StartThreads(_, _)
StartThreads(th, set) ==
  IF set = {} THEN th
  ELSE LET a == CHOOSE x \in set : \A y \in set : x <= y
       IN StartThreads((Cardinality(DOMAIN th) + 1 :> RegThread(a, 0, "send", << >>))
                         @@ th, set \ {a})

\* One round of keep_alive_worker at time now: _refresh_registration for
\* every registered account that is due (the marker is removed and
\* register_account called), then time.sleep(60).  Rounds in which no
\* account is due change nothing; they are passed over in one step, and
\* rounds before any expiry is set are left out.
KeepAliveCheck ==
  /\ now < RegistrationExpiry + MaxLate
  /\ \E a \in accounts : expires[a] > 0
  /\ LET due == { a \in DueAt(now) : a \in sockets }
     IN /\ Cardinality(DOMAIN reg_thread) + Cardinality(due) <= MaxRegistrations
        /\ registered_accounts' = registered_accounts \ DueAt(now)
        /\ reg_thread' = StartThreads(reg_thread, due)
        /\ now' = IF DueAt(now) # {} THEN now + KeepAliveInterval ELSE NextCheck
  /\ lastOp' = [OtherOp EXCEPT !.op = "keep_alive"]
  /\ UNCHANGED << callVars, sockets, accounts, listeners, expires >>

\* The state after add_account for both accounts: nothing registered, no
\* listener, no expiry.
InitReg ==
  /\ sockets = Accounts
  /\ accounts = Accounts
  /\ registered_accounts = {}
  /\ listeners = [a \in Accounts |-> 0]
  /\ expires = [a \in Accounts |-> 0]
  /\ now = 0
  /\ reg_thread = EmptyMap
  /\ active_calls = EmptyMap
  /\ call_id_counter = FirstCallId
  /\ incoming_sip_to_internal = EmptyMap
  /\ active_streams = {}
  /\ deferred_calls = <<>>
  /\ last_state = [a \in Accounts |-> "None"]
  /\ trace = EmptyMap
  /\ lastOp = OtherOp
  /\ thr = [t \in Threads |-> Idle]
  /\ call_thread = EmptyMap
  /\ sock_timeout = [a \in Accounts |-> 0]
  /\ held_info = EmptyMap
  /\ InitSteps

RegThreadIds == 1..(MaxRegistrations + 1)

\* Registration: register_account and its threads, the listeners they start,
\* the keep-alive scheduler and remove_account.
NextReg ==
  \/ \E a \in Accounts : RegisterAccount(a)
  \/ \E t \in RegThreadIds : SendRegister(t)
  \/ \E t \in RegThreadIds, d \in RegDatagrams \cup {TimedOut} : RecvFirst(t, d)
  \/ \E t \in RegThreadIds, d \in RegDatagrams \cup {TimedOut} : RecvFinal(t, d)
  \/ \E t \in RegThreadIds : WakeUp(t)
  \/ \E a \in Accounts : ListenerExits(a)
  \/ KeepAliveCheck
  \/ \E a \in Accounts : RemoveAccount(a)

SpecReg == InitReg /\ [][NextReg]_vars

\* ------------------------------------- the allocation of internal call ids
\* internal_id = self.call_id_counter / call_id = self.call_id_counter, by
\* the listener thread of account a or by the thread that calls make_call,
\* after the checks the handler makes before it.  No lock is held.
AllocRead(t, a) ==
  /\ alloc[t].pc = "idle"
  /\ t = "listener0" => a = 0
  /\ t = "listener1" => a = 1
  /\ a \in registered_accounts
  /\ t = "caller" => /\ a \in accounts
                     /\ a \in sockets
                     /\ Cardinality(DOMAIN call_thread) < MaxOutgoing
  /\ call_id_counter < FirstCallId + MaxCalls
  /\ alloc' = [alloc EXCEPT ![t] = [pc |-> "read", acct |-> a,
                                    id |-> call_id_counter, tmp |-> 0]]
  /\ lastOp' = [OtherOp EXCEPT !.op = "alloc", !.cid = call_id_counter]
  /\ UNCHANGED << managerVars, rtp, calc, mon, lst >>

\* self.call_id_counter += 1: the counter is loaded ...
AllocLoad(t) ==
  /\ alloc[t].pc = "read"
  /\ alloc' = [alloc EXCEPT ![t].pc = "load", ![t].tmp = call_id_counter]
  /\ lastOp' = OtherOp
  /\ UNCHANGED << managerVars, rtp, calc, mon, lst >>

\* ... and the sum stored; then the rest of
\* _handle_incoming_invite_with_media with the id read before.
AllocStoreInvite(t, inv, route_to_whatsapp) ==
  /\ t \in {"listener0", "listener1"}
  /\ alloc[t].pc = "load"
  /\ LET internal_id == alloc[t].id
         a == alloc[t].acct
     IN /\ call_id_counter' = alloc[t].tmp + 1
        /\ incoming_sip_to_internal' =
             (inv.sip_call_id :> internal_id) @@ incoming_sip_to_internal
        /\ active_calls' = (internal_id :> IncomingCallInfo(a, inv)) @@ active_calls
        /\ trace' = (internal_id :>
                       InviteReplies \o << Rec("RINGING") >>) @@ trace
        /\ deferred_calls' = Append(deferred_calls, DeferredEntry(a, internal_id, route_to_whatsapp))
  /\ alloc' = [alloc EXCEPT ![t] = NotAllocating]
  /\ lastOp' = OtherOp
  /\ UNCHANGED << sockets, registered_accounts, active_streams, last_state,
                  auxVars, held_info, regVars, rtp, calc, mon, lst >>

\* ... and the sum stored; then the rest of make_call and the start of
\* _make_call_thread with the id read before.
AllocStoreCall(t) ==
  /\ t = "caller"
  /\ alloc[t].pc = "load"
  /\ LET c == alloc[t].id
         a == alloc[t].acct
     IN /\ call_id_counter' = alloc[t].tmp + 1
        /\ active_calls' = (c :> OutgoingCallInfo(a)) @@ active_calls
        /\ trace' = (c :> << TxInvite, Rec("CALLING") >>) @@ trace
        /\ call_thread' = (c :> Thread("loop", 0, 0)) @@ call_thread
        /\ sock_timeout' = [sock_timeout EXCEPT ![a] = CallTimeout]
  /\ alloc' = [alloc EXCEPT ![t] = NotAllocating]
  /\ lastOp' = OtherOp
  /\ UNCHANGED << sockets, registered_accounts, incoming_sip_to_internal,
                  active_streams, deferred_calls, last_state, thr, held_info,
                  regVars, rtp, calc, mon, lst >>

\* INVITEs on the listener threads of both accounts and make_call, statement
\* by statement around the counter.
NextAlloc ==
  \/ \E t \in AllocThreads, a \in Accounts : AllocRead(t, a)
  \/ \E t \in AllocThreads : AllocLoad(t)
  \/ \E t \in AllocThreads, inv \in SignallingInvites, route_to_whatsapp \in BOOLEAN :
       AllocStoreInvite(t, inv, route_to_whatsapp)
  \/ \E t \in AllocThreads : AllocStoreCall(t)

SpecAlloc == Init /\ [][NextAlloc]_vars

\* ------------------------------------------------ one incoming call, end to end
\* INVITEs that offer payload types 0 and 8 and carry a caller number.
ScenarioInvites ==
  [sip_call_id : SipCallIds,
   from_user : { u \in FromUsers : CallerNumber(u) # NoNumber },
   sdp_port : {TRUE},
   pts : { <<0, 8>>, <<8, 0>> },
   rtpmap : { NoRtpmap, (8 :> "PCMA"), (0 :> "PCMU") @@ (8 :> "PCMA") }]

\* One INVITE on the WhatsApp route, then a CONNECTED event of the call's
\* account with the caller's number, then the ACK (the RTP socket and the
\* audio devices open), then the BYE.
NextScenario ==
  \/ /\ call_id_counter = FirstCallId
     /\ \E a \in Accounts, inv \in ScenarioInvites : HandleIncomingInvite(a, inv, TRUE)
  \/ \E c \in DOMAIN active_calls, number \in EventNumbers \ {NoNumber} :
       /\ active_calls[c].state = "RINGING"
       /\ Norm(number) = Norm(active_calls[c].caller_number)
       /\ PresenceEvent(active_calls[c].account_id, "CONNECTED", number)
  \/ \E c \in DOMAIN active_calls :
       /\ active_calls[c].state = "ANSWERED"
       /\ HandleIncomingAck(active_calls[c].account_id, active_calls[c].sip_call_id, TRUE)
  \/ \E c \in DOMAIN active_calls :
       /\ c \in active_streams
       /\ HandleIncomingBye(active_calls[c].account_id, active_calls[c].sip_call_id)

SpecScenario == Init /\ [][NextScenario]_vars

\* ------------------------------------------------------ the RTP sender
\* (w + k) & 0xFFFFFFFF for 0 <= k < 65536
Add32(w, k) ==
  LET s == w[2] + k
  IN << (w[1] + (s \div 65536)) % 65536, s % 65536 >>

\* struct.pack('<H', x)
Pack16LittleEndian(x) == << x % 256, x \div 256 >>

\* struct.pack('>H', x) and struct.pack('>I', w)
Pack16(x) == << x \div 256, x % 256 >>
Pack32(w) == Pack16(w[1]) \o Pack16(w[2])

\* _create_rtp_packet: version 2, no padding, no extension, no CSRC, no
\* marker; a payload type other than 0 and 8 is sent as 0.
CreateRtpPacket(sequence, timestamp, ssrc, payload, payload_type) ==
  LET version == 2
      padding == 0
      extension == 0
      cc == 0
      marker == 0
      pt == IF payload_type \in {0, 8} THEN payload_type ELSE 0
  IN << version * 64 + padding * 32 + extension * 16 + cc, marker * 128 + pt >>
       \o Pack16(sequence % 65536) \o Pack32(timestamp) \o Pack32(ssrc)
       \o payload

\* A sender that skips a sequence number.
SkipSequence(sequence) == (sequence + 2) % 65536

\* stream['sequence'] = (stream['sequence'] + 1) & 0xFFFF
NextSequence(sequence) == (sequence + 1) % 65536

\* self.chunk_size
ChunkSize == 160

\* The stream after n iterations of the loop of _send_audio_thread, n < 2^31:
\* sequence n mod 2^16 and timestamp 160 n mod 2^32.
StreamAfter(n, ssrc, payload_type) ==
  LET nh == n \div 65536
      nl == n % 65536
      s == ChunkSize * nl
  IN [NewStream(ssrc, payload_type) EXCEPT
        !.sequence = nl,
        !.timestamp = << (ChunkSize * nh + (s \div 65536)) % 65536, s % 65536 >>,
        !.tx_count = n]

\* Packets already sent when the stream is first looked at: none, and the
\* counts just before the sequence number, the timestamp, and both wrap.
SentBefore == { 0, 65534, 26843544, 134217726 }

Ssrcs == { << 0, 1 >>, << 65535, 65535 >>, << 4660, 22136 >> }

\* G.711 payloads of a chunk, cut to one or two bytes.
Payloads == { << 255 >>, << 213, 85 >> }

\* One iteration of the loop of _send_audio_thread: the packet is built from
\* the stream's fields and sent, then sequence, timestamp and tx_count are
\* updated.
SendPacket(payload) ==
  /\ rtp.stream.running
  /\ rtp.run < MaxPackets
  /\ LET st == rtp.stream
         packet == CreateRtpPacket(st.sequence, st.timestamp, st.ssrc, payload,
                                   st.payload_type)
     IN rtp' = [stream |-> [st EXCEPT !.sequence = NextSequence(st.sequence),
                                      !.timestamp = Add32(st.timestamp, ChunkSize),
                                      !.tx_count = @ + 1],
                wire |-> IF rtp.wire = << >> THEN << packet >>
                         ELSE << rtp.wire[Len(rtp.wire)], packet >>,
                run |-> rtp.run + 1]
  /\ lastOp' = OtherOp
  /\ UNCHANGED << managerVars, alloc, calc, mon, lst >>

\* stop_rtp_stream: stream['running'] = False ends the loop.
StopSender ==
  /\ rtp.stream.running
  /\ rtp' = [rtp EXCEPT !.stream.running = FALSE]
  /\ lastOp' = OtherOp
  /\ UNCHANGED << managerVars, alloc, calc, mon, lst >>

\* The manager with both accounts registered and no call.
InitManager ==
  /\ sockets = Accounts
  /\ registered_accounts = Accounts
  /\ active_calls = EmptyMap
  /\ call_id_counter = FirstCallId
  /\ incoming_sip_to_internal = EmptyMap
  /\ active_streams = {}
  /\ deferred_calls = <<>>
  /\ last_state = [a \in Accounts |-> "None"]
  /\ trace = EmptyMap
  /\ lastOp = OtherOp
  /\ thr = [t \in Threads |-> Idle]
  /\ call_thread = EmptyMap
  /\ sock_timeout = [a \in Accounts |-> ListenerTimeout]
  /\ held_info = EmptyMap
  /\ accounts = Accounts
  /\ listeners = [a \in Accounts |-> 1]
  /\ reg_thread = EmptyMap
  /\ expires = [a \in Accounts |-> RegistrationExpiry]
  /\ now = 0

\* A stream just started, or one that has sent some packets.
InitRtp ==
  /\ InitManager
  /\ alloc = [t \in AllocThreads |-> NotAllocating]
  /\ calc = NoCalc
  /\ mon = NoMon
  /\ lst = NoLst
  /\ \E n \in SentBefore, ssrc \in Ssrcs, payload_type \in {0, 8} :
       rtp = [stream |-> StreamAfter(n, ssrc, payload_type), wire |-> << >>, run |-> 0]

NextRtp ==
  \/ \E payload \in Payloads : SendPacket(payload)
  \/ StopSender

SpecRtp == InitRtp /\ [][NextRtp]_vars

\* ------------------------------------------- RTP packets: build and parse
\* The result of _parse_rtp_header_and_payload: (pt, payload), (pt, None)
NoPayload(pt) == [pt |-> pt, none |-> TRUE, payload |-> << >>]
Payload(pt, bytes) == [pt |-> pt, none |-> FALSE, payload |-> bytes]

\* _parse_rtp_header_and_payload; indices count from 1 here, from 0 there.
ParseRtp(packet) ==
  IF Len(packet) < 12 THEN NoPayload(0)
  ELSE
    LET b1 == packet[1]
        b2 == packet[2]
        padding == (b1 \div 32) % 2
        extension == (b1 \div 16) % 2
        csrc_count == b1 % 16
        pt == b2 % 128
        after_csrc == 12 + csrc_count * 4
    IN IF Len(packet) < after_csrc THEN NoPayload(pt)
       ELSE IF extension = 1 /\ Len(packet) < after_csrc + 4 THEN NoPayload(pt)
       ELSE
         LET ext_len_words == IF extension = 1
                                THEN packet[after_csrc + 3] * 256 + packet[after_csrc + 4]
                                ELSE 0
             offset == IF extension = 1 THEN after_csrc + 4 + ext_len_words * 4
                                        ELSE after_csrc
         IN IF Len(packet) < offset THEN NoPayload(pt)
            ELSE
              LET padlen == packet[Len(packet)]
                  end == IF padding = 1 /\ padlen < Len(packet) - offset
                           THEN Len(packet) - padlen
                           ELSE Len(packet)
              IN IF offset >= end THEN NoPayload(pt)
                 ELSE Payload(pt, SubSeq(packet, offset + 1, end))

\* n bytes of value b
RECURSIVE Bytes(_, _)
Bytes(n, b) == IF n <= 0 THEN << >> ELSE << b >> \o Bytes(n - 1, b)

\* A packet as a peer may send it: cc CSRC entries, an extension header of
\* ext words when x = 1, the payload, and pad bytes of padding whose last
\* byte is the count when pad > 0.
PeerPacket(l) ==
  << 128 + (IF l.pad > 0 THEN 32 ELSE 0) + l.x * 16 + l.cc, l.pt >>
    \o Pack16(l.seq) \o Pack32(Zero32) \o Pack32(<< 4660, 22136 >>)
    \o Bytes(4 * l.cc, 7)
    \o (IF l.x = 1 THEN << 190, 222 >> \o Pack16(l.ext) \o Bytes(4 * l.ext, 9) ELSE << >>)
    \o l.payload
    \o (IF l.pad > 0 THEN Bytes(l.pad - 1, 0) \o << l.pad >> ELSE << >>)

\* The bytes before the payload, as the header of l announces them.
HeaderLen(l) == 12 + 4 * l.cc + (IF l.x = 1 THEN 4 + 4 * l.ext ELSE 0)

Layouts ==
  [cc : {0, 2}, x : {0, 1}, ext : {0, 1}, pad : {0, 1, 4}, pt : {0, 8, 101},
   seq : {513}, payload : { << >>, << 10 >>, << 10, 20, 4 >> }]

\* What _create_rtp_packet is called with.
PacketFields ==
  [sequence : {0, 255, 256, 65535},
   timestamp : { Zero32, << 1, 2 >>, << 65535, 65535 >> },
   ssrc : Ssrcs, payload : Payloads, payload_type : {0, 8}]

\* Either the arguments of a packet to send, or a datagram received on the
\* RTP socket: a packet of a peer, whole or cut off after cut bytes.
InitPacket ==
  /\ InitManager
  /\ alloc = [t \in AllocThreads |-> NotAllocating]
  /\ rtp = NoRtp
  /\ mon = NoMon
  /\ lst = NoLst
  /\ \/ \E f \in PacketFields :
          calc = [pc |-> "fields", kind |-> "send", in |-> f, packet |-> << >>,
                  parsed |-> NoPayload(0)]
     \/ \E l \in Layouts :
          \E cut \in 0..Len(PeerPacket(l)) :
            calc = [pc |-> "packet", kind |-> "receive",
                    in |-> [layout |-> l, cut |-> cut],
                    packet |-> SubSeq(PeerPacket(l), 1, cut), parsed |-> NoPayload(0)]

\* _create_rtp_packet on the fields
Packetize ==
  /\ calc.pc = "fields"
  /\ calc' = [calc EXCEPT !.pc = "packet",
                !.packet = CreateRtpPacket(calc.in.sequence, calc.in.timestamp,
                                           calc.in.ssrc, calc.in.payload,
                                           calc.in.payload_type)]
  /\ UNCHANGED << managerVars, lastOp, alloc, rtp, mon, lst >>

\* _parse_rtp_header_and_payload on the packet
ParsePacket ==
  /\ calc.pc = "packet"
  /\ calc' = [calc EXCEPT !.pc = "parsed", !.parsed = ParseRtp(calc.packet)]
  /\ UNCHANGED << managerVars, lastOp, alloc, rtp, mon, lst >>

NextPacket == Packetize \/ ParsePacket

SpecPacket == InitPacket /\ [][NextPacket]_vars

\* ------------------------------------------------------ G.711: AudioConverter
\* a | b and a ^ b on n-bit values
RECURSIVE BitOr(_, _, _)
BitOr(a, b, n) ==
  IF n = 0 THEN 0
  ELSE (IF a % 2 = 1 \/ b % 2 = 1 THEN 1 ELSE 0) + 2 * BitOr(a \div 2, b \div 2, n - 1)

RECURSIVE BitXor(_, _, _)
BitXor(a, b, n) ==
  IF n = 0 THEN 0
  ELSE (IF a % 2 # b % 2 THEN 1 ELSE 0) + 2 * BitXor(a \div 2, b \div 2, n - 1)

\* x >> k for x >= 0
RECURSIVE Shr(_, _)
Shr(x, k) == IF k = 0 THEN x ELSE Shr(x \div 2, k - 1)

\* ULAW_TABLE of ulaw2lin, by magnitude 0..127
ULAW_TABLE ==
  <<
     -32124, -31100, -30076, -29052, -28028, -27004, -25980, -24956,
     -23932, -22908, -21884, -20860, -19836, -18812, -17788, -16764,
     -15996, -15484, -14972, -14460, -13948, -13436, -12924, -12412,
     -11900, -11388, -10876, -10364, -9852, -9340, -8828, -8316,
     -7932, -7676, -7420, -7164, -6908, -6652, -6396, -6140,
     -5884, -5628, -5372, -5116, -4860, -4604, -4348, -4092,
     -3900, -3772, -3644, -3516, -3388, -3260, -3132, -3004,
     -2876, -2748, -2620, -2492, -2364, -2236, -2108, -1980,
     -1884, -1820, -1756, -1692, -1628, -1564, -1500, -1436,
     -1372, -1308, -1244, -1180, -1116, -1052, -988, -924,
     -876, -844, -812, -780, -748, -716, -684, -652,
     -620, -588, -556, -524, -492, -460, -428, -396,
     -372, -356, -340, -324, -308, -292, -276, -260,
     -244, -228, -212, -196, -180, -164, -148, -132,
     -120, -112, -104, -96, -88, -80, -72, -64,
     -56, -48, -40, -32, -24, -16, -8, 0 >>

\* ALAW_TABLE of alaw2lin, by magnitude 0..127
ALAW_TABLE ==
  <<
     -5504, -5248, -6016, -5760, -4480, -4224, -4992, -4736,
     -7552, -7296, -8064, -7808, -6528, -6272, -7040, -6784,
     -2752, -2624, -3008, -2880, -2240, -2112, -2496, -2368,
     -3776, -3648, -4032, -3904, -3264, -3136, -3520, -3392,
     -22016, -20992, -24064, -23040, -17920, -16896, -19968, -18944,
     -30208, -29184, -32256, -31232, -26112, -25088, -28160, -27136,
     -11008, -10496, -12032, -11520, -8960, -8448, -9984, -9472,
     -15104, -14592, -16128, -15616, -13056, -12544, -14080, -13568,
     -344, -328, -376, -360, -280, -264, -312, -296,
     -472, -456, -504, -488, -408, -392, -440, -424,
     -88, -72, -120, -104, -24, -8, -56, -40,
     -216, -200, -248, -232, -152, -136, -184, -168,
     -1376, -1312, -1504, -1440, -1120, -1056, -1248, -1184,
     -1888, -1824, -2016, -1952, -1632, -1568, -1760, -1696,
     -688, -656, -752, -720, -560, -528, -624, -592,
     -944, -912, -1008, -976, -816, -784, -880, -848 >>

\* while temp != 0 and seg < 7: seg += 1; temp >>= 1
RECURSIVE UlawSegment(_, _)
UlawSegment(seg, temp) ==
  IF temp # 0 /\ seg < 7 THEN UlawSegment(seg + 1, temp \div 2) ELSE seg

\* lin2ulaw on one sample
lin2ulaw(sample) ==
  LET b0 == sample + 33
      sign == IF b0 < 0 THEN 0 ELSE 128
      b1 == IF b0 < 0 THEN -b0 ELSE b0
      biased == IF b1 > 32767 THEN 32767 ELSE b1
      seg == UlawSegment(0, Shr(biased, 7))
      uval == IF seg = 0 THEN Shr(biased, 1) % 16
              ELSE BitOr(Shr(biased, seg) % 16, 16, 8)
      ulaw_byte == BitOr(sign, BitOr(seg * 16, uval, 8), 8)
  IN BitXor(ulaw_byte, 255, 8)

\* ulaw2lin on one byte; array('h') holds -32768..32767 and raises
\* OverflowError otherwise
ulaw2lin(byte) ==
  LET sign == (byte \div 128) % 2
      magnitude == byte % 128
      linear == ULAW_TABLE[magnitude + 1]
  IN IF sign = 0 THEN -linear ELSE linear

\* while temp != 1 and seg < 7: seg += 1; temp >>= 1
RECURSIVE AlawSegment(_, _)
AlawSegment(seg, temp) ==
  IF temp # 1 /\ seg < 7 THEN AlawSegment(seg + 1, temp \div 2) ELSE seg

\* lin2alaw on one sample
lin2alaw(sample) ==
  LET sign == IF sample < 0 THEN 0 ELSE 128
      s1 == IF sample < 0 THEN -sample ELSE sample
      s == IF s1 > 32767 THEN 32767 ELSE s1
      seg == AlawSegment(1, Shr(s, 8))
      aval == IF seg = 1 THEN Shr(s, 4) % 16 ELSE Shr(s, seg + 3) % 16
      alaw_byte == IF s >= 256 THEN BitOr(seg * 16, aval, 8) ELSE Shr(s, 4)
  IN BitXor(BitOr(sign, alaw_byte, 8), 85, 8)

\* alaw2lin on one byte
alaw2lin(byte) ==
  LET sign == (byte \div 128) % 2
      magnitude == byte % 128
      linear == ALAW_TABLE[magnitude + 1]
  IN IF sign = 1 THEN -linear ELSE linear

\* 16-bit samples: the ends, the values around 0, and every 257th.
Samples == {-32768, -1, 0, 1, 32767} \cup { 257 * k : k \in -127..127 }

\* One sample read from the microphone, to be sent as PCMU or PCMA.
InitG711 ==
  /\ InitManager
  /\ alloc = [t \in AllocThreads |-> NotAllocating]
  /\ rtp = NoRtp
  /\ mon = NoMon
  /\ lst = NoLst
  /\ \E x \in Samples, codec \in {"PCMU", "PCMA"} :
       calc = [pc |-> "sample", codec |-> codec, in |-> x, byte |-> 0, out |-> 0]

\* _send_audio_thread: lin2alaw if the codec is 'PCMA', else lin2ulaw
Encode ==
  /\ calc.pc = "sample"
  /\ calc' = [calc EXCEPT !.pc = "byte",
                !.byte = IF calc.codec = "PCMA" THEN lin2alaw(calc.in)
                                                ELSE lin2ulaw(calc.in)]
  /\ UNCHANGED << managerVars, lastOp, alloc, rtp, mon, lst >>

\* _receive_audio_thread of the peer side of the same code: alaw2lin for
\* payload type 8, else ulaw2lin
Decode ==
  /\ calc.pc = "byte"
  /\ calc' = [calc EXCEPT !.pc = "decoded",
                !.out = IF calc.codec = "PCMA" THEN alaw2lin(calc.byte)
                                               ELSE ulaw2lin(calc.byte)]
  /\ UNCHANGED << managerVars, lastOp, alloc, rtp, mon, lst >>

NextG711 == Encode \/ Decode

SpecG711 == InitG711 /\ [][NextG711]_vars

\* ------------------------------------------- REGISTER: digest authentication
\* Text is a sequence of pieces here.  hashlib.md5(text).hexdigest() is
\* Python's library: it is kept as the digest of exactly that text, and two
\* digests are equal only if the texts are.
Md5(text) == << "md5(" >> \o text \o << ")" >>

\* A parameter of an authentication header: key=value, the value in double
\* quotes or not.
Param(key, value, quoted) == [key |-> key, value |-> value, quoted |-> quoted]

\* The lines of a response that _parse_auth_challenge looks at: the name of
\* each header and its parameters.
Line(name, params) == [name |-> name, params |-> params]

\* re.search(key + r'="([^"]*)"', auth_line): the first quoted parameter
\* whose key ends in key; "" when there is none.
Search(params, keys) ==
  LET hits == { i \in 1..Len(params) : params[i].key \in keys /\ params[i].quoted }
  IN IF hits = {} THEN ""
     ELSE params[CHOOSE i \in hits : \A j \in hits : i <= j].value

\* _parse_auth_challenge: the first line with 'WWW-Authenticate:' or
\* 'Proxy-Authenticate:' in it; realm and nonce of that line.
ParseAuthChallenge(response) ==
  LET auth == { i \in 1..Len(response) :
                  response[i].name \in {"WWW-Authenticate", "Proxy-Authenticate"} }
  IN IF auth = {} THEN [realm |-> "", nonce |-> ""]
     ELSE LET auth_line == response[CHOOSE i \in auth : \A j \in auth : i <= j]
          IN [realm |-> Search(auth_line.params, {"realm"}),
              nonce |-> Search(auth_line.params, {"nonce", "cnonce", "nextnonce"})]

\* A digest with nonce and HA2 in the wrong order.
ResponseHashSwapped(ha1, nonce, ha2) == Md5(ha1 \o << ":" >> \o ha2 \o << ":", nonce >>)

\* response_hash = md5(f"{ha1}:{nonce}:{ha2}")
ResponseHash(ha1, nonce, ha2) == Md5(ha1 \o << ":", nonce, ":" >> \o ha2)

NoMessage == [sent |-> FALSE]

\* _create_auth_register_message: None without realm or nonce; else the
\* request line and the Authorization header of the REGISTER.
CreateAuthRegisterMessage(challenge_response, account) ==
  LET auth_info == ParseAuthChallenge(challenge_response)
      realm == auth_info.realm
      nonce == auth_info.nonce
      username == account.username
      password == account.password
      domain == account.domain
      method == "REGISTER"
      uri == << "sip:", domain >>
      ha1 == Md5(<< username, ":", realm, ":", password >>)
      ha2 == Md5(<< method, ":" >> \o uri)
  IN IF realm = "" \/ nonce = "" THEN NoMessage
     ELSE [sent |-> TRUE,
           method |-> "REGISTER",
           request_uri |-> << "sip:", domain >>,
           header |-> "Authorization",
           username |-> username, realm |-> realm, nonce |-> nonce, uri |-> uri,
           response |-> ResponseHash(ha1, nonce, ha2)]

SipAccounts ==
  [username : {"JEFF01", "1001"}, password : {"112233", "pw"}, domain : {"d", "pbx.example"}]

AuthParams ==
  { << Param("realm", "r", TRUE), Param("nonce", "n1", TRUE) >>,
    << Param("nonce", "n1", TRUE), Param("realm", "r", TRUE) >>,
    << Param("realm", "asterisk", TRUE), Param("nonce", "4f2a", TRUE),
       Param("algorithm", "MD5", FALSE) >>,
    << Param("realm", "r", TRUE), Param("domain", "sip:d", TRUE),
       Param("nonce", "n1", TRUE), Param("opaque", "", TRUE) >>,
    << Param("realm", "r", TRUE) >>,
    << Param("realm", "", TRUE), Param("nonce", "n1", TRUE) >>,
    << Param("realm", "r", FALSE), Param("nonce", "n1", TRUE) >> }

\* 401 and 407 responses: the challenge alone, after other headers, and
\* before a second challenge.
Challenges ==
  { << Line(name, params) >> :
      name \in {"WWW-Authenticate", "Proxy-Authenticate"}, params \in AuthParams }
  \cup { << Line("Via", << Param("branch", "z9", FALSE) >>), Line("WWW-Authenticate", params) >> :
           params \in AuthParams }
  \cup { << Line("WWW-Authenticate", params),
            Line("WWW-Authenticate",
                 << Param("realm", "other", TRUE), Param("nonce", "n2", TRUE) >>) >> :
           params \in AuthParams }

\* A challenge received for the REGISTER of an account.
InitDigest ==
  /\ InitManager
  /\ alloc = [t \in AllocThreads |-> NotAllocating]
  /\ rtp = NoRtp
  /\ mon = NoMon
  /\ lst = NoLst
  /\ \E account \in SipAccounts, challenge \in Challenges :
       calc = [pc |-> "challenge", account |-> account, in |-> challenge,
               out |-> NoMessage]

\* _perform_registration, challenge branch: the REGISTER to resend
BuildAuthRegister ==
  /\ calc.pc = "challenge"
  /\ calc' = [calc EXCEPT !.pc = "built",
                !.out = CreateAuthRegisterMessage(calc.in, calc.account)]
  /\ UNCHANGED << managerVars, lastOp, alloc, rtp, mon, lst >>

NextDigest == BuildAuthRegister

SpecDigest == InitDigest /\ [][NextDigest]_vars

\* --------------------------------- the monitor's polling threads, by step
\* start_monitoring starts one thread per account, once: a second call for
\* an account returns at once. A poll ends in a parsed state, or in UNKNOWN
\* when adb failed.
MonitorStates == PresenceStates \cup {"UNKNOWN"}
MonitorNumbers == { NoNumber, <<"9", "0">> }

\* with self._lock: entered without waiting for the holder to leave
AcquireWithoutLock(a) ==
  /\ mon.thr[a].pc = "parsed"
  /\ mon' = [mon EXCEPT !.lock = @ \cup {a}, !.thr[a].pc = "locked"]
  /\ UNCHANGED << managerVars, lastOp, alloc, rtp, calc, lst >>

\* loop: subprocess.run has returned and the state is known
Poll(a, state, number) ==
  /\ mon.thr[a].pc = "idle"
  /\ mon' = [mon EXCEPT !.thr[a] =
               [pc |-> "parsed", state |-> state, number |-> number]]
  /\ UNCHANGED << managerVars, lastOp, alloc, rtp, calc, lst >>

\* with self._lock:
AcquireLock(a) ==
  /\ mon.thr[a].pc = "parsed"
  /\ mon.lock = {}
  /\ mon' = [mon EXCEPT !.lock = {a}, !.thr[a].pc = "locked"]
  /\ UNCHANGED << managerVars, lastOp, alloc, rtp, calc, lst >>

\* if state != prev: self._last_state[account_id] = state, and the thread
\* enters self._on_state_change; an unchanged state leaves the block.
CompareState(a) ==
  /\ mon.thr[a].pc = "locked"
  /\ IF mon.thr[a].state # last_state[a]
       THEN /\ last_state' = [last_state EXCEPT ![a] = mon.thr[a].state]
            /\ mon' = [mon EXCEPT !.thr[a].pc = "callback"]
       ELSE /\ mon' = [mon EXCEPT !.thr[a].pc = "release"]
            /\ UNCHANGED last_state
  /\ UNCHANGED << sockets, registered_accounts, active_calls, call_id_counter,
                  incoming_sip_to_internal, active_streams, deferred_calls,
                  trace, auxVars, held_info, regVars, lastOp, alloc, rtp,
                  calc, lst >>

\* on_state, run by the polling thread that called it, to its return
RunCallback(a) ==
  /\ mon.thr[a].pc = "callback"
  /\ LET state == mon.thr[a].state
         number == mon.thr[a].number
         st == OnState(a, state, number)
     IN /\ active_calls' = st.calls
        /\ trace' = st.tr
        /\ deferred_calls' = st.dc
        /\ lastOp' = IF state = "CONNECTED"
                       THEN Op("on_state", a, 0, number, st.matched_any,
                               st.matched, st.fallback)
                       ELSE OtherOp
  /\ mon' = [mon EXCEPT !.thr[a].pc = "release"]
  /\ UNCHANGED << sockets, registered_accounts, call_id_counter,
                  incoming_sip_to_internal, active_streams, last_state,
                  auxVars, held_info, regVars, alloc, rtp, calc, lst >>

\* the end of the with block, then time.sleep(self.poll_interval)
ReleaseLock(a) ==
  /\ mon.thr[a].pc = "release"
  /\ mon' = [mon EXCEPT !.lock = @ \ {a}, !.thr[a] = Polling]
  /\ UNCHANGED << managerVars, lastOp, alloc, rtp, calc, lst >>

\* INVITEs on the WhatsApp route while the monitor threads poll.
MonitorInvites ==
  {inv \in Invites : inv.from_user \in {<<"a">>, <<"9", "-", "0">>}}

NextMonitor ==
  \/ \E a \in Accounts, inv \in MonitorInvites :
       HandleIncomingInvite(a, inv, TRUE)
  \/ \E a \in Accounts, state \in MonitorStates :
       \E number \in (IF state = "CONNECTED" THEN MonitorNumbers
                                             ELSE {NoNumber}) :
         Poll(a, state, number)
  \/ \E a \in Accounts : AcquireLock(a)
  \/ \E a \in Accounts : CompareState(a)
  \/ \E a \in Accounts : RunCallback(a)
  \/ \E a \in Accounts : ReleaseLock(a)

SpecMonitor == Init /\ [][NextMonitor]_vars

\* ------------------------------------- the cleanup of the notification loop
GracePeriod == 70
CleanupSleep == 2

\* info.get('ts', default): the value under the key 'ts', or the default
\* for an entry that has no such key.
EntryTs(info, default) == IF "ts" \in DOMAIN info THEN info.ts ELSE default

\* One iteration of 'while True' in _notification_loop: every answered
\* entry whose 'ts' lies more than the grace period back is popped, then
\* time.sleep(2.0). The two time.time() of one test are taken as one
\* reading; the second is never the earlier one.
CleanupPass ==
  /\ now < MaxPasses * CleanupSleep
  /\ deferred_calls' =
       SelectSeq(deferred_calls,
                 LAMBDA info : ~(/\ info.answered
                                 /\ now - EntryTs(info, now) > GracePeriod))
  /\ now' = now + CleanupSleep
  /\ lastOp' = OtherOp
  /\ UNCHANGED << sockets, registered_accounts, active_calls, call_id_counter,
                  incoming_sip_to_internal, active_streams, last_state, trace,
                  auxVars, held_info, accounts, listeners, reg_thread,
                  expires, stepVars >>

\* INVITEs on the WhatsApp route, presence events that answer them, and the
\* cleanup running every two seconds.
NextCleanup ==
  \/ \E a \in Accounts, inv \in SignallingInvites :
       HandleIncomingInvite(a, inv, TRUE)
  \/ \E a \in Accounts, state \in PresenceStates :
       PresenceEvent(a, state, NoNumber)
  \/ CleanupPass

\* The loop never ends and sleeps two seconds at a time, so a pass that can
\* run does run.
SpecCleanup == Init /\ [][NextCleanup]_vars /\ WF_vars(CleanupPass)

\* ------------------------------------------- presence events of every state
\* _parse_state returns IDLE, RINGING or CONNECTED, IDLE with None or with a
\* time stamp in the place of the number; the loop reports UNKNOWN when adb
\* failed.
QuietStates == {"IDLE", "UNKNOWN", "RINGING"}
AllPresenceStates == QuietStates \cup {"CONNECTED"}

NextPresence ==
  \/ \E a \in Accounts, inv \in Invites :
       HandleIncomingInvite(a, inv, TRUE)
  \/ \E a \in Accounts, state \in AllPresenceStates :
       \E number \in (IF state = "UNKNOWN" THEN {NoNumber}
                                           ELSE MonitorNumbers) :
         PresenceEvent(a, state, number)

SpecPresence == Init /\ [][NextPresence]_vars

\* -------------------------------------- the listener loops and their ends
\* What an iteration of listen_loop can raise: socket.timeout and OSError
\* from sock.settimeout / sock.recvfrom, UnicodeDecodeError from
\* data.decode('utf-8') of the base class (the media listener decodes with
\* errors='ignore'), and whatever a handler raises on a message it cannot
\* take apart.
ListenerClasses == {"enhanced", "working"}
Raised(cls) ==
  {"socket.timeout", "OSError", "HandlerError"}
    \cup (IF cls = "working" THEN {"UnicodeDecodeError"} ELSE {})

\* An inner except clause that lets everything but the timeout pass.
InnerExceptTimeoutOnly(exc) ==
  IF exc = "socket.timeout" THEN "continue" ELSE "propagate"

\* except socket.timeout: continue / except Exception as e: print, sleep.
\* Every exception above is a subclass of Exception.
InnerExcept(exc) ==
  IF exc = "socket.timeout" THEN "continue"
  ELSE IF exc \in {"OSError", "UnicodeDecodeError", "HandlerError"} THEN "sleep"
  ELSE "propagate"

LoopAt(a, pc) == lst.loop[a].pc = pc

\* The iteration is over without an exception: a datagram was handled.
Handled(a) ==
  [lst EXCEPT !.loop[a].pc = "test", !.loop[a].exc = "none",
              !.loop[a].recovered =
                 IF lst.loop[a].exc # "none" THEN lst.loop[a].exc ELSE @]

\* while account_id in self.registered_accounts:
ListenTest(a) ==
  /\ LoopAt(a, "test")
  /\ listeners[a] > 0
  /\ IF a \in registered_accounts
       THEN /\ lst' = [lst EXCEPT !.loop[a].pc = "recv"]
            /\ UNCHANGED listeners
       ELSE /\ lst' = [lst EXCEPT !.loop[a].pc = "exited"]
            /\ listeners' = [listeners EXCEPT ![a] = @ - 1]
  /\ UNCHANGED << sockets, registered_accounts, active_calls, call_id_counter,
                  incoming_sip_to_internal, active_streams, deferred_calls,
                  last_state, trace, auxVars, held_info, accounts, reg_thread,
                  expires, now, lastOp, alloc, rtp, calc, mon >>

\* recvfrom returned an INVITE and _handle_incoming_invite_with_media ran
ListenInvite(a, inv) ==
  /\ LoopAt(a, "recv")
  /\ a \in sockets
  /\ InviteHandled(a, inv, TRUE)
  /\ lst' = Handled(a)
  /\ UNCHANGED << alloc, rtp, calc, mon >>

\* recvfrom returned a BYE and _handle_incoming_bye_with_media ran
ListenBye(a, sid) ==
  /\ LoopAt(a, "recv")
  /\ a \in sockets
  /\ ByeHandled(a, sid)
  /\ lst' = Handled(a)
  /\ UNCHANGED << alloc, rtp, calc, mon >>

\* recvfrom returned a datagram whose first token is no request the loop
\* dispatches (a response, an empty datagram, bytes that decode to nothing).
ListenIgnored(a) ==
  /\ LoopAt(a, "recv")
  /\ a \in sockets
  /\ lst' = Handled(a)
  /\ UNCHANGED << managerVars, lastOp, alloc, rtp, calc, mon >>

\* The iteration raises: on a closed socket settimeout raises OSError;
\* otherwise any of the exceptions of the class.
ListenRaise(a) ==
  /\ LoopAt(a, "recv")
  /\ \E exc \in (IF a \in sockets THEN Raised(lst.cls) ELSE {"OSError"}) :
       lst' = [lst EXCEPT !.loop[a].pc = "raised", !.loop[a].exc = exc]
  /\ UNCHANGED << managerVars, lastOp, alloc, rtp, calc, mon >>

\* The except clauses of the inner try; what they do not catch ends the
\* loop in the outer except.
ListenExcept(a) ==
  /\ LoopAt(a, "raised")
  /\ IF InnerExcept(lst.loop[a].exc) = "propagate"
       THEN /\ lst' = [lst EXCEPT !.loop[a].pc = "exited"]
            /\ listeners' = [listeners EXCEPT ![a] = @ - 1]
       ELSE /\ lst' = [lst EXCEPT !.loop[a].pc = "test"]
            /\ UNCHANGED listeners
  /\ UNCHANGED << sockets, registered_accounts, active_calls, call_id_counter,
                  incoming_sip_to_internal, active_streams, deferred_calls,
                  last_state, trace, auxVars, held_info, accounts, reg_thread,
                  expires, now, lastOp, alloc, rtp, calc, mon >>

\* The INVITE that arrives at the listeners, possibly again.
ListenInvites == {inv \in SignallingInvites : inv.sip_call_id = "x@h"}

ListenStep(a) ==
  \/ ListenTest(a)
  \/ \E inv \in ListenInvites : ListenInvite(a, inv)
  \/ \E sid \in SipCallIds : ListenBye(a, sid)
  \/ ListenIgnored(a)
  \/ ListenRaise(a)
  \/ ListenExcept(a)

\* keep_alive_worker: while self.running, one pass, time.sleep(60).  What a
\* pass does to the registrations is followed in the registration
\* specification.
KeepAliveStep ==
  /\ lst.ka # "exited"
  /\ lst' = [lst EXCEPT !.ka = IF lst.ka = "sleep" THEN "test"
                               ELSE IF lst.running THEN "sleep"
                               ELSE "exited"]
  /\ UNCHANGED << managerVars, lastOp, alloc, rtp, calc, mon >>

\* WorkingSipManager.shutdown: self.running = False, every socket closed,
\* self.sockets.clear()
Shutdown ==
  /\ lst.running
  /\ lst' = [lst EXCEPT !.running = FALSE]
  /\ sockets' = {}
  /\ lastOp' = OtherOp
  /\ UNCHANGED << registered_accounts, active_calls, call_id_counter,
                  incoming_sip_to_internal, active_streams, deferred_calls,
                  last_state, trace, auxVars, held_info, regVars, alloc, rtp,
                  calc, mon >>

InitListen ==
  /\ InitManager
  /\ alloc = [t \in AllocThreads |-> NotAllocating]
  /\ rtp = NoRtp
  /\ calc = NoCalc
  /\ mon = NoMon
  /\ \E cls \in ListenerClasses : lst = ListenerOf(cls)

\* The listeners at work: datagrams, exceptions, and accounts removed.
NextListen ==
  \/ \E a \in Accounts : ListenStep(a)
  \/ \E a \in Accounts : RemoveAccount(a)

SpecListen == InitListen /\ [][NextListen]_vars

\* The iterations of a listener that handle no request.
IdleStep(a) ==
  \/ ListenTest(a)
  \/ ListenIgnored(a)
  \/ ListenRaise(a)
  \/ ListenExcept(a)

\* The ends of the loops: remove_account and shutdown.
NextStop ==
  \/ \E a \in Accounts : IdleStep(a)
  \/ KeepAliveStep
  \/ \E a \in Accounts : RemoveAccount(a)
  \/ Shutdown

\* A thread that can take a step takes one: recvfrom returns after its
\* timeout at the latest, and no sleep is endless.
SpecStop ==
  /\ InitListen
  /\ [][NextStop]_vars
  /\ \A a \in Accounts : WF_vars(IdleStep(a))
  /\ WF_vars(KeepAliveStep)

\* ----------------------------------------- the RTP sender and its failures
\* What input_stream.read returns: the bytes of a chunk, here two samples
\* per 8 kHz frame, possibly with a byte too many (array.frombytes raises
\* ValueError on a length that is no multiple of 2); or the read raises.
Frame(samples, odd) == [samples |-> samples, odd |-> odd]
Silence == Frame(<< 0, 0 >>, FALSE)
Chunks == { << 0, 0, 0, 0 >>, << 514, 771, -514, -771 >> }

\* audioop.ratecv from 16 kHz to 8 kHz: ratio 2, out_length = len / 2, and
\* the interpolation at position 2 i is the sample at 2 i.
ratecv(fragment) ==
  IF fragment.odd THEN [raised |-> TRUE]
  ELSE [raised |-> FALSE,
        data |-> Frame([i \in 1..(Len(fragment.samples) \div 2) |->
                          fragment.samples[2 * i - 1]], FALSE)]

\* audioop.lin2alaw / lin2ulaw on a fragment
lin2g711(codec, fragment) ==
  IF fragment.odd THEN [raised |-> TRUE]
  ELSE [raised |-> FALSE,
        data |-> [i \in 1..Len(fragment.samples) |->
                    IF codec = "PCMA" THEN lin2alaw(fragment.samples[i])
                                      ELSE lin2ulaw(fragment.samples[i])]]

\* An encoding step whose failure is not caught where it happens.
EncodeUncaught(codec, pcm8) ==
  LET r == lin2g711(codec, pcm8)
  IN IF r.raised THEN [act |-> "raise", failed |-> TRUE]
     ELSE [act |-> "send", failed |-> FALSE, payload |-> r.data]

\* The inner try of the loop around the encoder: on failure the silence is
\* encoded with lin2ulaw, and if that fails too the frame is given up.
EncodeFrame(codec, pcm8) ==
  LET r == lin2g711(codec, pcm8)
  IN IF ~r.raised THEN [act |-> "send", failed |-> FALSE, payload |-> r.data]
     ELSE LET s == lin2g711("PCMU", Silence)
          IN IF s.raised THEN [act |-> "skip", failed |-> TRUE]
             ELSE [act |-> "send", failed |-> TRUE, payload |-> s.data]

\* The frame to encode: downsampled when the device rate is not 8 kHz, with
\* silence in the place of a frame that ratecv could not convert.
Pcm8(audio_data, resampled) ==
  IF ~resampled THEN [failed |-> FALSE, data |-> audio_data]
  ELSE LET r == ratecv(audio_data)
       IN IF r.raised THEN [failed |-> TRUE, data |-> Silence]
          ELSE [failed |-> FALSE, data |-> r.data]

StreamCodec(st) == IF st.payload_type = 8 THEN "PCMA" ELSE "PCMU"

\* One iteration of the loop of _send_audio_thread on what the microphone
\* delivered.  last is what this iteration did, prev what the one before did.
SendFrame(audio_data, resampled) ==
  /\ rtp.stream.running
  /\ rtp.loop = "running"
  /\ rtp.run < MaxPackets
  /\ LET st == rtp.stream
         pcm == Pcm8(audio_data, resampled)
         enc == EncodeFrame(StreamCodec(st), pcm.data)
         did == [act |-> enc.act, failed |-> pcm.failed \/ enc.failed]
     IN CASE enc.act = "send" ->
               LET packet == CreateRtpPacket(st.sequence, st.timestamp, st.ssrc,
                                             enc.payload, st.payload_type)
               IN rtp' = [rtp EXCEPT
                     !.stream = [st EXCEPT !.sequence = NextSequence(st.sequence),
                                           !.timestamp = Add32(st.timestamp, ChunkSize),
                                           !.tx_count = @ + 1],
                     !.wire = << packet >>,
                     !.run = @ + 1, !.last = did, !.prev = rtp.last]
          [] enc.act = "skip" ->
               rtp' = [rtp EXCEPT !.run = @ + 1, !.last = did, !.prev = rtp.last]
          [] enc.act = "raise" ->
               rtp' = [rtp EXCEPT !.loop = "ended", !.run = @ + 1,
                                  !.last = did, !.prev = rtp.last]
  /\ lastOp' = OtherOp
  /\ UNCHANGED << managerVars, alloc, calc, mon, lst >>

\* input_stream.read or socket.sendto raises: except Exception ... break
SenderBreaks ==
  /\ rtp.stream.running
  /\ rtp.loop = "running"
  /\ rtp' = [rtp EXCEPT !.loop = "ended"]
  /\ lastOp' = OtherOp
  /\ UNCHANGED << managerVars, alloc, calc, mon, lst >>

\* stop_rtp_stream: stream['running'] = False, seen at the next while test
SenderStopped ==
  /\ rtp.stream.running
  /\ rtp.loop = "running"
  /\ rtp' = [rtp EXCEPT !.stream.running = FALSE, !.loop = "ended"]
  /\ lastOp' = OtherOp
  /\ UNCHANGED << managerVars, alloc, calc, mon, lst >>

NoFrame == [act |-> "none", failed |-> FALSE]

InitSender ==
  /\ InitManager
  /\ alloc = [t \in AllocThreads |-> NotAllocating]
  /\ calc = NoCalc
  /\ mon = NoMon
  /\ lst = NoLst
  /\ \E payload_type \in {0, 8} :
       rtp = [stream |-> NewStream(<< 4660, 22136 >>, payload_type),
              wire |-> << >>, run |-> 0, loop |-> "running",
              last |-> NoFrame, prev |-> NoFrame]

NextSender ==
  \/ \E samples \in Chunks, odd, resampled \in BOOLEAN :
       SendFrame(Frame(IF resampled THEN samples ELSE SubSeq(samples, 2, 3), odd),
                 resampled)
  \/ SenderBreaks
  \/ SenderStopped

SpecSender == InitSender /\ [][NextSender]_vars

\* ------------------------------- the messages of one outgoing call's dialog
\* random.randint(1000000, 9999999) of the Call-ID and of a From tag, over
\* small ranges.
SipCallIdValues == {"1@h", "2@h"}
FromTags == {"1", "2", "3"}

\* The header fields of a request of the dialog.
Request(method, sip_call_id, from_tag, cseq) ==
  [method |-> method, call_id |-> sip_call_id, from_tag |-> from_tag, cseq |-> cseq]

\* _create_invite_message
CreateInviteMessage(sip_call_id, from_tag) == Request("INVITE", sip_call_id, from_tag, 1)

\* _create_auth_invite_response: from_tag is the tag it draws for the resend.
CreateAuthInviteResponse(call_info, from_tag) ==
  Request("INVITE", call_info.sip_call_id, from_tag, call_info.auth_attempts + 1)

\* _create_ack_message
CreateAckMessage(call_info) ==
  Request("ACK", call_info.sip_call_id, call_info.from_tag, 1)

\* _create_bye_message
CreateByeMessage(call_info) ==
  Request("BYE", call_info.sip_call_id, call_info.from_tag, 2)

RECURSIVE Built(_, _, _)
\* The requests among the events of one pass of the loop, as they are built.
Built(ev, call_info, from_tag) ==
  IF ev = << >> THEN << >>
  ELSE (IF Head(ev) = TxAuthInvite
          THEN << CreateAuthInviteResponse(call_info, from_tag) >>
        ELSE IF Head(ev) = TxAck THEN << CreateAckMessage(call_info) >>
        ELSE << >>) \o Built(Tail(ev), call_info, from_tag)

\* _make_call_thread up to the loop of _handle_call_responses: the identifiers
\* are drawn, the INVITE is sent and the call is stored.
InitDialog ==
  /\ InitManager
  /\ alloc = [t \in AllocThreads |-> NotAllocating]
  /\ rtp = NoRtp
  /\ mon = NoMon
  /\ lst = NoLst
  /\ \E sip_call_id \in SipCallIdValues, from_tag \in FromTags :
       calc = [pc |-> "loop",
               active |-> TRUE,
               call_info |-> [OutgoingCallInfo(0) EXCEPT !.sip_call_id = sip_call_id]
                               @@ [from_tag |-> from_tag],
               sent |-> << CreateInviteMessage(sip_call_id, from_tag) >>]

\* One pass of the loop of _handle_call_responses over datagram r.
DialogResponse ==
  /\ calc.pc = "loop"
  /\ calc.call_info.state \in {"CALLING", "RINGING"}
  /\ \E r \in Responses, started \in BOOLEAN, from_tag \in FromTags :
       LET o == ProcessResponse(calc.call_info,
                                IF calc.active THEN r ELSE [r EXCEPT !.sdp = "none"],
                                started)
       IN calc' = [calc EXCEPT !.call_info = o.ci,
                               !.sent = @ \o Built(o.ev, o.ci, from_tag),
                               !.pc = IF o.brk THEN "done" ELSE "loop"]
  /\ UNCHANGED << managerVars, lastOp, alloc, rtp, mon, lst >>

\* The loop test of _handle_call_responses fails.
DialogLoopExit ==
  /\ calc.pc = "loop"
  /\ ~(calc.call_info.state \in {"CALLING", "RINGING"})
  /\ calc' = [calc EXCEPT !.pc = "done"]
  /\ UNCHANGED << managerVars, lastOp, alloc, rtp, mon, lst >>

\* hangup_call of the call
DialogHangup ==
  /\ calc.active
  /\ calc' = [calc EXCEPT !.active = FALSE,
                          !.sent = @ \o (IF calc.call_info.state = "ESTABLISHED"
                                           THEN << CreateByeMessage(calc.call_info) >>
                                           ELSE << >>)]
  /\ UNCHANGED << managerVars, lastOp, alloc, rtp, mon, lst >>

NextDialog ==
  \/ DialogResponse
  \/ DialogLoopExit
  \/ DialogHangup

SpecDialog == InitDialog /\ [][NextDialog]_vars

\* ------------------------------------ deferred calls that end unanswered
\* INVITEs on the WhatsApp route, where no speech thread works on the entry,
\* the BYE of the caller, hangup_call, and the cleanup running every two
\* seconds.
NextEnded ==
  \/ \E a \in Accounts, inv \in SignallingInvites :
       HandleIncomingInvite(a, inv, TRUE)
  \/ \E a \in Accounts, sid \in SipCallIds : HandleIncomingBye(a, sid)
  \/ \E c \in CallIds : HangupCall(c)
  \/ CleanupPass

SpecEnded == Init /\ [][NextEnded]_vars /\ WF_vars(CleanupPass)

\* ------------------------------------------------- properties: signalling
SentOk(tr, c) == IF c \in DOMAIN tr THEN Count(tr[c], Tx200) ELSE 0

\* C1: however often answer_deferred_call is invoked for a call, at most one
\* 200 OK is sent for it and it is reported ANSWERED at most once; an
\* invocation on a call that is unknown, not RINGING, not deferred or already
\* answered returns False, sends nothing and changes no call.
C1_AnswerDeferredIdempotent ==
  /\ [](\A c \in DOMAIN trace :
          /\ Count(trace[c], Tx200) <= 1
          /\ Count(trace[c], Cb("ANSWERED")) <= 1)
  /\ [][ lastOp'.op = "answer_deferred_call" =>
           LET c == lastOp'.cid
           IN ( \/ c \notin DOMAIN active_calls
                \/ active_calls[c].state # "RINGING"
                \/ ~active_calls[c].deferred_answer
                \/ SentOk(trace, c) > 0 )
              => /\ ~lastOp'.ok
                 /\ active_calls' = active_calls
                 /\ trace' = trace ]_vars

\* answer_deferred_call was invoked again on a call it had answered, and
\* returned False.
C1_Witness ==
  /\ lastOp.op = "answer_deferred_call"
  /\ ~lastOp.ok
  /\ lastOp.cid \in DOMAIN active_calls
  /\ active_calls[lastOp.cid].state = "ANSWERED"
  /\ ~active_calls[lastOp.cid].deferred_answer
  /\ Count(trace[lastOp.cid], Tx200) = 1

\* C6: an INVITE is replied to with 100 Trying and then 180 Ringing, both
\* before the call is recorded RINGING with deferred_answer set, and a 200 OK
\* for it is sent only by an invocation of answer_deferred_call or
\* answer_incoming_call for that call.
C6_InviteRepliesThenDeferred ==
  /\ [](\A c \in DOMAIN trace :
          SubSeq(trace[c], 1, 3) = << Tx100, Tx180, Rec("RINGING") >>)
  /\ [][ /\ \A c \in DOMAIN active_calls' \ DOMAIN active_calls :
              /\ trace'[c] = << Tx100, Tx180, Rec("RINGING") >>
              /\ active_calls'[c].state = "RINGING"
              /\ active_calls'[c].deferred_answer
         /\ \A c \in DOMAIN trace' :
              SentOk(trace', c) > SentOk(trace, c) =>
                \/ AnswerDeferredCall(c)
                \/ \E i \in 1..Len(deferred_calls) :
                     deferred_calls[i].cid = c /\ AnswerCallWithSpeechTrigger(i)
       ]_vars

\* An INVITE was handled and the call answered afterwards.
C6_Witness ==
  \E c \in DOMAIN trace :
    trace[c] = << Tx100, Tx180, Rec("RINGING"), Tx200, Cb("ANSWERED") >>

\* ------------------------------------------- properties: deferred answering
\* The pending deferred calls of account a: entries not yet answered whose
\* call is RINGING with deferred_answer set.
PendingOf(a) ==
  {i \in 1..Len(deferred_calls) :
     /\ deferred_calls[i].account_id = a
     /\ ~deferred_calls[i].answered
     /\ DeferredAnswerable(active_calls, deferred_calls[i].cid)}

NumberOf(i) == active_calls[deferred_calls[i].cid].caller_number

\* Length of the longest prefix of n made of ch only.
Run(n, ch) == Cardinality({k \in 1..Len(n) : \A j \in 1..k : n[j] = ch})

\* n without its leading '+' characters and then without its leading zeros.
Stripped(n) ==
  LET m == SubSeq(n, Run(n, "+") + 1, Len(n))
  IN SubSeq(m, Run(m, "0") + 1, Len(m))

NumberMatch(i, N) ==
  /\ N # NoNumber
  /\ NumberOf(i) # NoNumber
  /\ Stripped(NumberOf(i)) = Stripped(N)

\* C3: on a CONNECTED event with number N for account A, a pending call of A
\* with a known number is answered by the matching loop exactly when its
\* number equals N once '+' and leading zeros are stripped; when one matches,
\* the pending calls of A with a known different number stay RINGING and
\* unanswered; calls of other accounts are not touched.
C3_NumberMatching ==
  [][ (lastOp'.op = "on_state" /\ lastOp'.num # NoNumber) =>
        LET a == lastOp'.acct
            N == lastOp'.num
            known == {i \in PendingOf(a) : NumberOf(i) # NoNumber}
        IN /\ \A i \in known :
                deferred_calls[i].cid \in lastOp'.matched <=> NumberMatch(i, N)
           /\ (\E i \in known : NumberMatch(i, N)) =>
                \A i \in known : ~NumberMatch(i, N) =>
                  LET c == deferred_calls[i].cid
                  IN /\ active_calls'[c] = active_calls[c]
                     /\ trace'[c] = trace[c]
                     /\ ~deferred_calls'[i].answered
           /\ \A c \in DOMAIN active_calls :
                active_calls[c].account_id # a =>
                  active_calls'[c] = active_calls[c] /\ trace'[c] = trace[c]
           /\ \A i \in 1..Len(deferred_calls) :
                deferred_calls[i].account_id # a =>
                  deferred_calls'[i] = deferred_calls[i]
    ]_vars

\* A CONNECTED event answered one call whose number differs from the event's
\* only by its prefix, while another call of the account with a known number
\* stayed RINGING.
C3_Witness ==
  /\ lastOp.op = "on_state"
  /\ lastOp.num # NoNumber
  /\ \E c \in lastOp.matched, d \in DOMAIN active_calls :
       /\ c \in DOMAIN active_calls
       /\ active_calls[c].state = "ANSWERED"
       /\ active_calls[c].caller_number # lastOp.num
       /\ active_calls[c].caller_number # NoNumber
       /\ d # c
       /\ active_calls[d].account_id = lastOp.acct
       /\ active_calls[d].caller_number # NoNumber
       /\ active_calls[d].state = "RINGING"
       /\ SentOk(trace, d) = 0

\* The oldest pending call of a set of entries.
Oldest(pend) == CHOOSE i \in pend : \A j \in pend : i <= j

\* C4: on a CONNECTED event for account A that no pending call of A matches
\* by number, exactly the oldest pending call of A is answered and every
\* other pending call of A stays RINGING.
C4_FallbackAnswersOldestOnly ==
  [][ lastOp'.op = "on_state" =>
        LET a == lastOp'.acct
            pend == PendingOf(a)
        IN (pend # {} /\ \A i \in pend : ~NumberMatch(i, lastOp'.num)) =>
             \A i \in pend :
               LET c == deferred_calls[i].cid
               IN IF i = Oldest(pend)
                    THEN active_calls'[c].state = "ANSWERED"
                         /\ SentOk(trace', c) = 1
                    ELSE active_calls'[c].state = "RINGING"
                         /\ SentOk(trace', c) = 0
    ]_vars

\* C5: once a deferred call of account A has been answered, a later CONNECTED
\* event for A answers a pending call of A only on a number match.
C5_FallbackOncePerAccount ==
  [][ lastOp'.op = "on_state" =>
        LET a == lastOp'.acct
        IN (\E j \in 1..Len(deferred_calls) :
              deferred_calls[j].account_id = a /\ deferred_calls[j].answered) =>
             \A i \in PendingOf(a) :
               SentOk(trace', deferred_calls[i].cid) > 0 =>
                 NumberMatch(i, lastOp'.num)
    ]_vars

\* -------------------------------------------------- properties: threads
\* C2: for one incoming call at most one 200 OK is sent, however the steps of
\* answer_deferred_call on the monitor thread, answer_incoming_call on the
\* speech thread and the BYE handler of the listener interleave.
C2_AtMostOneOkUnderInterleaving ==
  \A c \in DOMAIN trace : Count(trace[c], Tx200) <= 1

\* ------------------------------------------- properties: outgoing calls
\* Place of the first occurrence of event e in tr, 0 when there is none.
Place(tr, e) ==
  IF \E i \in 1..Len(tr) : tr[i] = e
    THEN CHOOSE i \in 1..Len(tr) : tr[i] = e /\ \A j \in 1..(i - 1) : tr[j] # e
    ELSE 0

\* C7: an outgoing call whose INVITE is answered by 100 Trying, then 180
\* Ringing or 183, then 200 OK (the first of them received by the call's own
\* thread) passes through CALLING, TRYING and RINGING and ends ESTABLISHED,
\* the SDP answer parsed and the ACK sent before ESTABLISHED is reported.
C7_ProvisionalThenEstablished ==
  \A c \in DOMAIN call_thread :
    LET tr == trace[c]
        arr == Arrivals(tr)
    IN ( /\ Len(arr) = 3
         /\ arr[1] = Rx([line |-> SL(100, "Trying"), challenge |-> FALSE, sdp |-> "none"])
         /\ arr[2].v.line \in {SL(180, "Ringing"), SL(183, "Session Progress")}
         /\ arr[3].v.line = SL(200, "OK")
         /\ arr[3].v.sdp = "port" )
       => /\ active_calls[c].state = "ESTABLISHED"
          /\ 0 < Place(tr, Rec("CALLING"))
          /\ Place(tr, Rec("CALLING")) < Place(tr, Rec("TRYING"))
          /\ Place(tr, Rec("TRYING")) < Place(tr, Rec("RINGING"))
          /\ Place(tr, Rec("RINGING")) < Place(tr, Ev("sdp", "port"))
          /\ Place(tr, Ev("sdp", "port")) < Place(tr, TxAck)
          /\ Place(tr, TxAck) < Place(tr, CbWhy("ESTABLISHED", "Call established"))

\* The call thread of c receives and handles response r in this step.
Processed(c, r) ==
  /\ c \in DOMAIN trace
  /\ Len(trace'[c]) > Len(trace[c])
  /\ trace'[c][Len(trace[c]) + 1] = Rx(r)

LastOf(tr) == tr[Len(tr)]

\* C8: each 401 or 407 challenge makes the call thread resend the INVITE with
\* an Authorization header, up to 2 times per call; one more challenge moves
\* the call to FAILED, reported with a reason text.
C8_ChallengeResendsInvite ==
  [][ \A c \in DOMAIN call_thread, r \in Responses :
        (Processed(c, r) /\ r.line.code \in {401, 407} /\ r.challenge) =>
          IF Count(trace[c], TxAuthInvite) < 2
            THEN /\ trace'[c] = trace[c] \o << Rx(r), TxAuthInvite >>
                 /\ active_calls'[c].state = active_calls[c].state
                 /\ call_thread'[c].pc = "loop"
            ELSE /\ active_calls'[c].state = "FAILED"
                 /\ Count(trace'[c], TxAuthInvite) = 2
                 /\ LastOf(trace'[c]).k = "cb"
                 /\ LastOf(trace'[c]).v = "FAILED"
                 /\ "why" \in DOMAIN LastOf(trace'[c])
    ]_vars

\* The call ended in state s in this step: reported once, thread past its loop.
EndsIn(c, s) ==
  /\ active_calls'[c].state = s
  /\ Cardinality({i \in 1..Len(trace'[c]) :
                    trace'[c][i].k = "cb" /\ trace'[c][i].v = s}) = 1
  /\ LastOf(trace'[c]).k = "cb"
  /\ LastOf(trace'[c]).v = s
  /\ call_thread'[c].pc = "done"

\* C9: a 486 or 603 response moves an outgoing call to BUSY, a 404 or any
\* other 4xx/5xx/6xx response that is no 401/407 challenge moves it to
\* FAILED; the state is reported once and the thread handles no response
\* after it.
C9_FinalResponses ==
  [][ \A c \in DOMAIN call_thread, r \in Responses :
        Processed(c, r) =>
          /\ r.line.code \in {486, 603} => EndsIn(c, "BUSY")
          /\ ( /\ r.line.code \div 100 \in {4, 5, 6}
               /\ r.line.code \notin {401, 407, 486, 603} )
             => EndsIn(c, "FAILED")
    ]_vars

\* C10: an outgoing call moves to TIMEOUT by socket.timeout only when its
\* recvfrom has waited 30 s without a datagram, the listener loop of the
\* account running at the same time.
C10_TimeoutAfterThirtySeconds ==
  \A c \in DOMAIN call_thread :
    call_thread[c].pc = "timed_out" => call_thread[c].waited >= CallTimeout

\* ------------------------------------------- properties: media and ending
\* C14: an incoming call becomes ESTABLISHED and gets its RTP stream only
\* from ANSWERED, after its 200 OK was sent; an ACK that arrives while the
\* call is RINGING starts no media and changes no state.
C14_MediaOnlyAfterAnswer ==
  [][ \A c \in DOMAIN active_calls :
        (active_calls[c].incoming /\ c \in DOMAIN active_calls') =>
          /\ ( \/ (c \in active_streams' /\ c \notin active_streams)
               \/ ( active_calls'[c].state = "ESTABLISHED"
                    /\ active_calls[c].state # "ESTABLISHED" ) )
             => (active_calls[c].state = "ANSWERED" /\ SentOk(trace, c) > 0)
          /\ ( active_calls[c].state = "RINGING" /\ SentOk(trace', c) = 0 )
             => ( active_calls'[c].state = "RINGING"
                  /\ c \notin active_streams' )
    ]_vars

\* C13: a CANCEL for an incoming call that is RINGING is answered with a 200
\* OK to the CANCEL and the call is reported TERMINATED and removed, so that
\* nothing sends a 200 OK to its INVITE afterwards.
C13_CancelTerminatesRinging ==
  \A c \in DOMAIN trace :
    LET tr == trace[c]
        p == Place(tr, RxCancel)
    IN (p > 0 /\ Count(SubSeq(tr, 1, p), Tx200) = 0
              /\ Count(SubSeq(tr, 1, p), Cb("TERMINATED")) = 0) =>
         /\ Count(tr, TxCancelOk) = 1
         /\ Count(tr, Cb("TERMINATED")) >= 1
         /\ c \notin DOMAIN active_calls
         /\ Count(tr, Tx200) = 0

\* The states on_call_state_changed reported for a call, in order.
Reported(tr) == SelectSeq(tr, LAMBDA e : e.k = "cb")

TerminalStates == {"TERMINATED", "FAILED", "BUSY", "TIMEOUT"}

\* C11: once a terminal state (TERMINATED, FAILED, BUSY, TIMEOUT) has been
\* reported for a call id, no later callback reports a different state for
\* it, whatever responses, BYE and hangup_call follow.
C11_TerminalStateIsFinal ==
  \A c \in DOMAIN trace :
    LET cbs == Reported(trace[c])
    IN \A i \in 1..Len(cbs), j \in 1..Len(cbs) :
         (i < j /\ cbs[i].v \in TerminalStates) => cbs[j].v = cbs[i].v

\* C12: a BYE received for a call in active_calls, incoming or outgoing, is
\* answered with 200 OK, the call's RTP stream is stopped, the call is
\* removed from active_calls and TERMINATED is reported.
C12_ByeEndsAnyCall ==
  [][ \A c \in DOMAIN active_calls :
        Count(trace'[c], TxByeOk) > Count(trace[c], TxByeOk) =>
          /\ c \notin DOMAIN active_calls'
          /\ c \notin active_streams'
          /\ Count(trace'[c], Cb("TERMINATED")) > Count(trace[c], Cb("TERMINATED"))
          /\ c \in active_streams =>
                Count(trace'[c], RtpStop) > Count(trace[c], RtpStop)
    ]_vars

\* ------------------------------------------- properties: codec negotiation
\* The answer the offer calls for: 0/PCMU if 0 is offered, else 8/PCMA if 8
\* is offered, else 0/PCMU.
Negotiated(pts) ==
  IF \E i \in 1..Len(pts) : pts[i] = 0 THEN [pt |-> 0, codec |-> "PCMU"]
  ELSE IF \E i \in 1..Len(pts) : pts[i] = 8 THEN [pt |-> 8, codec |-> "PCMA"]
  ELSE [pt |-> 0, codec |-> "PCMU"]

Law(codec) == IF codec = "PCMA" THEN "alaw" ELSE "ulaw"

\* C15: the answer to an offer is payload type 0/PCMU if 0 was offered, else
\* 8/PCMA if 8 was offered, else 0/PCMU; the 200 OK of the call carries
\* exactly that one payload type, and the RTP packets of the call carry it
\* with samples in the matching encoding.
C15_NegotiatedCodec ==
  \A c \in DOMAIN active_calls :
    LET ci == active_calls[c]
        n == Negotiated(ci.raw_invite.pts)
    IN ci.incoming =>
         /\ SentOk(trace, c) > 0 =>
               OkSdp(ci) = [pts |-> << n.pt >>, rtpmap |-> (n.pt :> n.codec)]
         /\ c \in active_streams =>
               RtpPacket(StreamInfo(ci)) = [pt |-> n.pt, encoding |-> Law(n.codec)]

\* ------------------------------------------------ properties: RTP streams
\* Sender/receiver thread pairs started for a call and not yet told to stop.
RunningLoops(c) == Count(trace[c], RtpStart) - Count(trace[c], RtpStop)

\* C16: for every call id there is at most one RTP stream in active_streams
\* and at most one sender loop and one receiver loop running, exactly when
\* the stream exists, after any sequence of ACKs (retransmitted or not), 200
\* OK responses, BYE and hangup_call.
C16_OneStreamPerCall ==
  \A c \in DOMAIN trace :
    /\ RunningLoops(c) \in {0, 1}
    /\ RunningLoops(c) = 1 <=> c \in active_streams

\* One call has its stream running after its ACK, another call's stream was
\* started and stopped again.
C16_Witness ==
  \E c \in active_streams, d \in DOMAIN trace :
    /\ c \in DOMAIN active_calls
    /\ active_calls[c].incoming
    /\ active_calls[c].rtp_active
    /\ Count(trace[c], RtpStart) = 1
    /\ d # c
    /\ Count(trace[d], RtpStart) = 1
    /\ Count(trace[d], RtpStop) = 1

\* ------------------------------------------------ properties: registration
\* C17: a registration thread none of whose recvfrom calls returned a
\* datagram makes exactly 3 attempts, each further attempt after a wait of
\* 3 s, then reports (False, 0) once, and it does not put the account into
\* registered_accounts nor start a listener.
C17_ThreeAttemptsThenFailure ==
  /\ [](\A t \in DOMAIN reg_thread :
          (reg_thread[t].pc = "done" /\ ~reg_thread[t].heard) =>
            /\ reg_thread[t].attempt = 2
            /\ reg_thread[t].waits = << 3, 3 >>
            /\ reg_thread[t].cbs = << CbReg(FALSE, 0) >>)
  /\ [][ \A t \in DOMAIN reg_thread :
           /\ reg_thread'[t].attempt # reg_thread[t].attempt =>
                /\ reg_thread[t].pc = "sleep"
                /\ reg_thread'[t].attempt = reg_thread[t].attempt + 1
                /\ Len(reg_thread[t].waits) = reg_thread'[t].attempt
           /\ ( /\ reg_thread[t].pc # "done"
                /\ reg_thread'[t].pc = "done"
                /\ ~reg_thread'[t].heard )
              => /\ registered_accounts' = registered_accounts
                 /\ listeners' = listeners
       ]_vars

\* A thread has failed three times without hearing anything, and its account
\* is not registered.
C17_Witness ==
  \E t \in DOMAIN reg_thread :
    /\ reg_thread[t].pc = "done"
    /\ ~reg_thread[t].heard
    /\ reg_thread[t].attempt = 2
    /\ reg_thread[t].log = << TxRegister, Got(TimedOut) >>
    /\ reg_thread[t].cbs = << CbReg(FALSE, 0) >>
    /\ reg_thread[t].acct \notin registered_accounts

\* What thread t received in this step, when its log grew.
Received(t) == reg_thread'[t].log[Len(reg_thread[t].log) + 1]

C19_DueAccountsAreRefreshed ==
  [][ lastOp'.op = "keep_alive" =>
        \A a \in accounts :
          ( /\ expires[a] > 0
            /\ expires[a] - now < 300
            /\ \A t \in DOMAIN reg_thread :
                 reg_thread[t].acct = a => reg_thread[t].pc = "done" )
          => \E t \in DOMAIN reg_thread' \ DOMAIN reg_thread :
               reg_thread'[t].acct = a
    ]_vars

\* C20: at any time at most one listener loop runs on the socket of an
\* account, however register_account, the scheduler's refresh and
\* remove_account interleave.
C20_OneListenerPerAccount ==
  \A a \in Accounts : listeners[a] <= 1

\* ------------------------------------------------- properties: call ids
\* The ids handed out so far: those of the calls created and those a thread
\* has read and is about to use.
HandedOut ==
  DOMAIN trace \cup { alloc[t].id : t \in { u \in AllocThreads : alloc[u].pc # "idle" } }

\* C21: an internal call id handed out by make_call or by the handling of an
\* incoming INVITE is greater than every id handed out before it, and so
\* distinct from them, also when the listener threads of different accounts
\* and make_call run concurrently.
C21_CallIdsDistinctIncreasing ==
  [][ lastOp'.op = "alloc" => \A c \in HandedOut : c < lastOp'.cid ]_vars

\* ------------------------------------------- properties: media at set-up
\* C22: a call is reported ESTABLISHED through on_call_state_changed only
\* after its RTP stream was started, that is after start_rtp_stream opened
\* the RTP socket and the audio devices; when they cannot be opened the call
\* is not reported ESTABLISHED.
C22_EstablishedOnlyWithMedia ==
  \A c \in DOMAIN trace :
    \A i \in 1..Len(trace[c]) :
      (trace[c][i].k = "cb" /\ trace[c][i].v = "ESTABLISHED")
        => \E j \in 1..(i - 1) : trace[c][j] = RtpStart

\* ------------------------------------------- properties: the end-to-end run
\* What was sent for a call and what happened to its RTP stream, in order.
Wire(tr) == SelectSeq(tr, LAMBDA e : e.k \in {"tx", "rtp"})

FullRun == << Tx100, Tx180, Tx200, RtpStart, TxByeOk, RtpStop >>

\* C23: an INVITE offering payload types 0 and 8, then a CONNECTED presence
\* event with the matching number, then an ACK, then a BYE: at every moment
\* what was sent is a prefix of 100 Trying, 180 Ringing, 200 OK, RTP start,
\* 200 OK to the BYE, RTP stop; the 200 OK is sent once and its SDP selects
\* payload type 0, PCMU; at the end all of it was sent, TERMINATED is the last
\* state reported, once, and no RTP stream and no active call is left.
C23_IncomingCallEndToEnd ==
  /\ [](\A c \in DOMAIN trace :
          /\ \E n \in 0..Len(FullRun) : Wire(trace[c]) = SubSeq(FullRun, 1, n)
          /\ Count(trace[c], Cb("TERMINATED")) > 0 =>
               /\ Wire(trace[c]) = FullRun
               /\ Count(trace[c], Cb("TERMINATED")) = 1
               /\ LastOf(trace[c]) = Cb("TERMINATED")
               /\ active_streams = {}
               /\ active_calls = EmptyMap)
  /\ [][ \A c \in DOMAIN trace' :
           SentOk(trace', c) > SentOk(trace, c) =>
             OkSdp(active_calls'[c]) = [pts |-> << 0 >>, rtpmap |-> (0 :> "PCMU")]
       ]_vars

\* The run is over: the call was answered on the presence event, its media
\* ran, and the BYE ended it.
C23_Witness ==
  \E c \in DOMAIN trace :
    /\ Wire(trace[c]) = FullRun
    /\ LastOf(trace[c]) = Cb("TERMINATED")
    /\ c \notin DOMAIN active_calls
    /\ \E i \in 1..Len(deferred_calls) :
         deferred_calls[i].cid = c /\ deferred_calls[i].answered
    /\ \E a \in Accounts : last_state[a] = "CONNECTED"

\* ---------------------------------------------------- properties: RTP
\* The fields of the 12-byte header of a packet on the wire.
SeqOf(packet) == packet[3] * 256 + packet[4]
TsOf(packet) == << packet[5] * 256 + packet[6], packet[7] * 256 + packet[8] >>
SsrcOf(packet) == << packet[9] * 256 + packet[10], packet[11] * 256 + packet[12] >>

\* w + 160 modulo 2^32, on the halves
Plus160(w) ==
  IF w[2] + 160 < 65536 THEN << w[1], w[2] + 160 >>
  ELSE << (IF w[1] = 65535 THEN 0 ELSE w[1] + 1), w[2] + 160 - 65536 >>

\* C24: every packet of a stream carries the sequence number of the packet
\* before it plus 1 modulo 65536 and its timestamp plus 160 modulo 2^32 (65535
\* is followed by 0), the first packet of a stream carries 0 and 0, and the
\* SSRC is the same in all packets and never changes in the stream.
C24_SequenceAndTimestamp ==
  /\ [](Len(rtp.wire) = 2 =>
          /\ SeqOf(rtp.wire[2]) = (IF SeqOf(rtp.wire[1]) = 65535 THEN 0
                                   ELSE SeqOf(rtp.wire[1]) + 1)
          /\ TsOf(rtp.wire[2]) = Plus160(TsOf(rtp.wire[1]))
          /\ SsrcOf(rtp.wire[2]) = SsrcOf(rtp.wire[1]))
  /\ []((rtp.stream.tx_count = 1 /\ Len(rtp.wire) = 1) =>
          /\ SeqOf(rtp.wire[1]) = 0
          /\ TsOf(rtp.wire[1]) = Zero32)
  /\ [][ /\ rtp'.stream.ssrc = rtp.stream.ssrc
         /\ rtp'.wire # rtp.wire =>
              SsrcOf(rtp'.wire[Len(rtp'.wire)]) = rtp.stream.ssrc ]_vars

\* A packet with sequence number 65535 and timestamp 2^32 - 160 was followed
\* by one with 0 and 0.
C24_Witness ==
  /\ Len(rtp.wire) = 2
  /\ SeqOf(rtp.wire[1]) = 65535
  /\ TsOf(rtp.wire[1]) = << 65535, 65376 >>
  /\ SeqOf(rtp.wire[2]) = 0
  /\ TsOf(rtp.wire[2]) = Zero32

\* C25: for the sequence numbers, timestamps, SSRCs, non-empty payloads and
\* payload types 0 and 8 drawn, parsing the packet that _create_rtp_packet
\* built returns the payload type and the payload, and the 12 header bytes
\* hold version 2, no padding, extension or CSRC, and exactly the sequence
\* number, the timestamp and the SSRC.
C25_RtpRoundTrip ==
  (calc.pc = "parsed" /\ calc.kind = "send") =>
    /\ calc.parsed = Payload(calc.in.payload_type, calc.in.payload)
    /\ Len(calc.packet) = 12 + Len(calc.in.payload)
    /\ calc.packet[1] = 128
    /\ calc.packet[2] = calc.in.payload_type
    /\ SeqOf(calc.packet) = calc.in.sequence
    /\ TsOf(calc.packet) = calc.in.timestamp
    /\ SsrcOf(calc.packet) = calc.in.ssrc

\* The packet with sequence number 65535 and timestamp 2^32 - 1 was built
\* and parsed.
C25_Witness ==
  /\ calc.pc = "parsed"
  /\ calc.kind = "send"
  /\ calc.in.sequence = 65535
  /\ calc.in.timestamp = << 65535, 65535 >>
  /\ calc.in.payload_type = 8
  /\ calc.parsed.payload = << 213, 85 >>
  /\ SubSeq(calc.packet, 3, 8) = << 255, 255, 255, 255, 255, 255 >>

\* C26: of a packet with cc CSRC entries, an extension header and p bytes of
\* padding the parser returns exactly the payload: the bytes after the
\* 12-byte header, the CSRC list and the extension header, without the
\* padding (no payload when there is none); of a packet cut off before the
\* end of what its header announces it returns no payload.
C26_ParseSkipsCsrcExtensionPadding ==
  (calc.pc = "parsed" /\ calc.kind = "receive") =>
    LET l == calc.in.layout
    IN /\ calc.in.cut = Len(PeerPacket(l)) =>
            /\ calc.parsed.payload = l.payload
            /\ calc.parsed.none = (l.payload = << >>)
            /\ calc.parsed.pt = l.pt
       /\ calc.in.cut < HeaderLen(l) => calc.parsed.none

\* ------------------------------------------------- properties: G.711
\* |x - y|
Distance(x, y) == IF x < y THEN y - x ELSE x - y

\* C27: for every 16-bit sample x and both laws, encoding gives one byte in
\* 0..255 and decoding that byte gives a 16-bit value at a distance of at
\* most 1024 from x.
C27_G711RoundTrip ==
  /\ calc.pc \in {"byte", "decoded"} => calc.byte \in 0..255
  /\ calc.pc = "decoded" =>
       /\ calc.out \in -32768..32767
       /\ Distance(calc.out, calc.in) <= 1024

\* ------------------------------------------------- properties: digest
\* The quoted value of parameter key in the first challenge of a response.
ChallengeValue(response, key) ==
  LET first == CHOOSE i \in 1..Len(response) :
                 /\ response[i].name \in {"WWW-Authenticate", "Proxy-Authenticate"}
                 /\ \A j \in 1..(i - 1) :
                      response[j].name \notin {"WWW-Authenticate", "Proxy-Authenticate"}
      params == response[first].params
  IN params[CHOOSE i \in 1..Len(params) : params[i].key = key].value

\* C28: the response in the Authorization header of the REGISTER that answers
\* a challenge is MD5(HA1:nonce:HA2) with HA1 = MD5(username:realm:password)
\* and HA2 = MD5(REGISTER:uri), realm and nonce those of the challenge and
\* uri the request URI sip:<domain>.
C28_DigestResponse ==
  (calc.pc = "built" /\ calc.out.sent) =>
    LET realm == ChallengeValue(calc.in, "realm")
        nonce == ChallengeValue(calc.in, "nonce")
        uri == << "sip:", calc.account.domain >>
        HA1 == Md5(<< calc.account.username, ":", realm, ":", calc.account.password >>)
        HA2 == Md5(<< "REGISTER", ":" >> \o uri)
    IN /\ calc.out.response = Md5(HA1 \o << ":", nonce, ":" >> \o HA2)
       /\ calc.out.request_uri = uri
       /\ calc.out.uri = uri
       /\ calc.out.realm = realm
       /\ calc.out.nonce = nonce
       /\ calc.out.username = calc.account.username

\* The REGISTER for user JEFF01, password 112233, domain d, answering a
\* challenge with realm r and nonce n1.
C28_Witness ==
  /\ calc.pc = "built"
  /\ calc.out.sent
  /\ calc.out.response =
       << "md5(", "md5(", "JEFF01", ":", "r", ":", "112233", ")", ":", "n1", ":",
          "md5(", "REGISTER", ":", "sip:", "d", ")", ")" >>

\* ------------------------------------------------ properties: the monitor
InCallback == {a \in Accounts : mon.thr[a].pc = "callback"}

\* C29: presence events reach the coordinator one at a time: at no moment
\* are two polling threads inside the callback, and the thread inside it
\* is the one that holds the monitor's lock.
C29_CallbackSerialized ==
  /\ Cardinality(InCallback) <= 1
  /\ InCallback \subseteq mon.lock

\* One thread is inside the callback while the thread of another account
\* has an event to deliver and waits for the lock.
C29_Witness ==
  \E a, b \in Accounts :
    /\ a # b
    /\ mon.thr[a].pc = "callback"
    /\ mon.thr[a].state = "CONNECTED"
    /\ mon.thr[b].pc = "parsed"
    /\ mon.thr[b].state # last_state[b]

\* ------------------------------------------------ properties: the cleanup
AnsweredEntry(c) ==
  \E i \in 1..Len(deferred_calls) :
    deferred_calls[i].cid = c /\ deferred_calls[i].answered

\* C30: every deferred-call entry marked answered is eventually removed from
\* the pending set, so answered entries do not accumulate.
C30_AnsweredEntriesAreRemoved ==
  \A c \in CallIds : AnsweredEntry(c) ~> ~AnsweredEntry(c)

\* ------------------------------------------ properties: quiet presence events
\* C31: a presence event with state IDLE, UNKNOWN or RINGING sends no SIP
\* message, reports nothing, and leaves every call and every deferred entry,
\* the answered flags included, as they were.
C31_QuietEventsChangeNothing ==
  [][\A a \in Accounts :
       (last_state'[a] # last_state[a] /\ last_state'[a] \in QuietStates) =>
         /\ active_calls' = active_calls
         /\ deferred_calls' = deferred_calls
         /\ trace' = trace]_vars

\* An account whose later call was answered on a CONNECTED event while an
\* earlier one stayed pending and ringing has then seen a quiet event.
C31_Witness ==
  \E a \in Accounts, i, j \in 1..Len(deferred_calls) :
    /\ i < j
    /\ deferred_calls[i].account_id = a
    /\ ~deferred_calls[i].answered
    /\ active_calls[deferred_calls[i].cid].state = "RINGING"
    /\ deferred_calls[j].account_id = a
    /\ deferred_calls[j].answered
    /\ last_state[a] \in QuietStates

\* ---------------------------------------------- properties: the listeners
\* C32: an exception raised while a listener receives, decodes or handles a
\* datagram is contained: the except clause takes the loop back to its while
\* test with the account still registered and the loop still counted as
\* running, the loop of a registered account has never ended, and from the
\* test of a registered account the loop goes on to receive.
C32_ExceptionsContained ==
  /\ [](\A a \in registered_accounts : ~LoopAt(a, "exited") /\ listeners[a] = 1)
  /\ [][\A a \in Accounts :
          (LoopAt(a, "raised") /\ lst'.loop[a] # lst.loop[a]) =>
            /\ lst'.loop[a].pc = "test"
            /\ registered_accounts' = registered_accounts
            /\ listeners' = listeners]_vars
  /\ [][\A a \in Accounts :
          (LoopAt(a, "test") /\ a \in registered_accounts
             /\ lst'.loop[a] # lst.loop[a]) =>
            lst'.loop[a].pc = "recv"]_vars

\* A listener whose handler raised went on and handled a datagram, and is
\* receiving again, while the listener of another account is in its except
\* clause.
C32_Witness ==
  \E a \in registered_accounts, b \in Accounts :
    /\ a # b
    /\ lst.loop[a].recovered = "HandlerError"
    /\ LoopAt(a, "recv")
    /\ LoopAt(b, "raised")

\* ------------------------------------------- properties: the end of the loops
AllListenersExited == \A a \in Accounts : LoopAt(a, "exited")

\* C33: after remove_account the listener loop of the account eventually
\* exits, and after shutdown every listener loop and the keep-alive loop
\* eventually exit.
C33_LoopsExit ==
  /\ \A a \in Accounts : (a \notin accounts) ~> LoopAt(a, "exited")
  /\ ~lst.running ~> (AllListenersExited /\ lst.ka = "exited")

\* ------------------------------------------- properties: the sender's failures
PayloadOf(packet) == SubSeq(packet, 13, Len(packet))

\* C34: an iteration of the sender loop in which the downsampling or the
\* G.711 encoding of the frame failed leaves the loop and the stream
\* running; it either sends one packet whose payload is encoded silence,
\* with the sequence number advanced as for any packet, or sends nothing
\* and leaves the stream's fields alone.
C34_FrameFailuresRecovered ==
  [][(rtp'.run = rtp.run + 1 /\ rtp'.last.failed) =>
       /\ rtp'.loop = "running"
       /\ rtp'.stream.running
       /\ \/ /\ rtp'.last.act = "send"
             /\ rtp'.stream.sequence = (rtp.stream.sequence + 1) % 65536
             /\ \A i \in 1..Len(PayloadOf(rtp'.wire[1])) :
                  PayloadOf(rtp'.wire[1])[i] \in {lin2ulaw(0), lin2alaw(0)}
             /\ Len(PayloadOf(rtp'.wire[1])) = Len(Silence.samples)
          \/ /\ rtp'.last.act = "skip"
             /\ rtp'.stream = rtp.stream
             /\ rtp'.wire = rtp.wire]_vars

\* After a frame that could not be encoded the loop has sent a frame that
\* was encoded from the microphone's samples.
C34_Witness ==
  /\ rtp.prev.failed
  /\ ~rtp.last.failed
  /\ rtp.last.act = "send"
  /\ rtp.loop = "running"
  /\ PayloadOf(rtp.wire[1]) = << lin2alaw(771), lin2alaw(-514) >>
  /\ rtp.stream.sequence >= 2

\* -------------------------------------- properties: retransmitted INVITEs
\* C35: at most one active call exists per SIP Call-ID: an INVITE that
\* carries the Call-ID of a recorded call creates no second call entry.
C35_OneCallPerCallId ==
  \A c1, c2 \in DOMAIN active_calls :
    active_calls[c1].sip_call_id = active_calls[c2].sip_call_id => c1 = c2

\* ------------------------------------------ properties: hangup and the thread
\* C36: once hangup_call has reported TERMINATED for a call, the call has no
\* RTP stream, none is started afterwards and no further state is reported
\* for it, whatever its response-handling thread receives afterwards.
C36_NothingAfterHangup ==
  \A c \in DOMAIN trace :
    /\ Count(trace[c], Cb("TERMINATED")) > 0 => c \notin active_streams
    /\ \A i, j \in 1..Len(trace[c]) :
         (i < j /\ trace[c][i] = Cb("TERMINATED")) =>
           /\ trace[c][j].k # "cb"
           /\ trace[c][j] # RtpStart

\* ------------------------------------------- properties: registration results
\* C37: an account is added to registered_accounts only by a registration
\* thread of that account that has received a 200 response to the REGISTER
\* of its attempt.
C37_RegisteredOnlyAfterOk ==
  [][\A a \in registered_accounts' \ registered_accounts :
       \E t \in DOMAIN reg_thread :
         /\ reg_thread[t].acct = a
         /\ reg_thread'[t] # reg_thread[t]
         /\ \E i \in 1..Len(reg_thread'[t].log) :
              /\ reg_thread'[t].log[i].k = "rx"
              /\ reg_thread'[t].log[i].v.line.code = 200]_vars

\* C38: a registration thread that has run to completion has reported
\* exactly once: (id, True, 200) or (id, False, 0).
C38_OneCallbackPerRegistration ==
  \A t \in DOMAIN reg_thread :
    reg_thread[t].pc = "done" =>
      /\ Len(reg_thread[t].cbs) = 1
      /\ reg_thread[t].cbs[1] \in {CbReg(TRUE, 200), CbReg(FALSE, 0)}

\* ------------------------------------------- properties: the call's dialog
\* The requests the call has sent, when it is in its dialog model.
Sent == IF "sent" \in DOMAIN calc THEN calc.sent ELSE << >>

\* The index of the last INVITE sent before request i: the one a 200 OK
\* received before request i answered.
RECURSIVE LastInvite(_, _)
LastInvite(sent, i) ==
  IF i = 0 THEN 0
  ELSE IF sent[i].method = "INVITE" THEN i
  ELSE LastInvite(sent, i - 1)

\* C39: every ACK and every BYE of an outgoing call carries the Call-ID and
\* the From tag of the INVITE that the 200 OK answered, also when that INVITE
\* was an authenticated resend.
C39_AckAndByeInTheInvitesDialog ==
  \A i \in 1..Len(Sent) :
    Sent[i].method \in {"ACK", "BYE"} =>
      LET invite == Sent[LastInvite(Sent, i)]
      IN /\ Sent[i].call_id = invite.call_id
         /\ Sent[i].from_tag = invite.from_tag

\* --------------------------------- properties: entries of calls that ended
PendingEntry(c) ==
  \E i \in 1..Len(deferred_calls) : deferred_calls[i].cid = c

\* The call of the entry ended (BYE or hangup_call) without being answered.
EndedUnanswered(c) ==
  /\ c \notin DOMAIN active_calls
  /\ \E i \in 1..Len(deferred_calls) :
       deferred_calls[i].cid = c /\ ~deferred_calls[i].answered

====
